---- MODULE Spec2Model ----
(***************************************************************************)
(* A model of dotpak's archive pipeline: path-safety validation, the       *)
(* exclusion matcher, file collection, archive writing and quota-bounded   *)
(* extraction with category filter, the safety backup of a restore, the    *)
(* cleanup of old backups and the pipe to the encryptor.                   *)
(*                                                                         *)
(* Strings are sequences of one-character strings, so that the string     *)
(* functions of the code (prefix tests, splitting, cleaning) are computed  *)
(* character by character.  The byte 0 is written "NUL".  The platform is  *)
(* Unix: the path separator is "/".                                        *)
(***************************************************************************)
EXTENDS Integers, Sequences, FiniteSets, TLC

VARIABLES
    pc,         \* the position of the operation under way
    path,       \* SpecPath: the string handed to isSafePath
    safe,       \* SpecPath: what isSafePath returned (once pc = "done")
    patterns,   \* SpecExcl: cfg.Excludes.Patterns
    exPath,     \* SpecExcl: the relative path handed to isExcluded
    excluded,   \* SpecExcl: what isExcluded returned (once pc = "done")
    fs,         \* the file system: real location -> node
    fs0,        \* the file system when the operation started
    umask,      \* the permission bits the process creates nothing with
    opts,       \* restore.Options
    archive,    \* the entries of the tar stream being restored
    pos,        \* extractArchive: how many headers tarReader.Next has returned
    count,      \* extractArchive: count
    totalExtracted, \* extractArchive: totalExtracted
    err,        \* extractArchive: the error returned ("" is nil)
    outcome,    \* extractArchive: what the loop did with the last entry
    result,     \* metadata.RestoreResult
    cfg,        \* config.Config, and which encryption tools are installed
    input,      \* Run: the archive path given and whether a file is there
    tarPath,    \* Run: the path of the decrypted archive, <<>> when none
    safety,     \* the safety archives written: path, entries, method
    warning,    \* Run: the error createSafetyBackup returned ("" is nil)
    bopts,      \* backup.Options
    enc,        \* Backup.Run: what resolveEncryption returned
    collected,  \* Backup.Run: the descriptors collectFiles returned
    stats,      \* Backup.stats
    bresult,    \* metadata.BackupResult
    produced,   \* the backup archives written: path, entries, method
    site,       \* SpecPipe: the function the pipe is of
    mpc,        \* SpecPipe: the position of the caller of EncryptReader
    wpc,        \* SpecPipe: the position of the writer goroutine
    pipe,       \* SpecPipe: the io.Pipe, "empty", "offered" or "taken"
    closed,     \* SpecPipe: the ends of the pipe that are closed
    todo,       \* SpecPipe: the writes the archive writer has yet to make
    errCh,      \* SpecPipe: the channel errCh
    werr,       \* SpecPipe: the error of the archive writer ("" is nil)
    encRet,     \* SpecPipe: how EncryptReader returned
    ret,        \* SpecPipe: what the function makes of the two results
    tw,         \* SpecWrite: the tar.Writer of writeArchive
    added,      \* SpecWrite: per descriptor handled, what AddFileToTar met and returned
    wret        \* SpecWrite: what writeArchive returned ("" is nil)

pathVars == <<path, safe>>
exclVars == <<patterns, exPath, excluded>>
fsVars == <<fs, fs0, umask>>
extractVars == <<opts, archive, pos, count, totalExtracted, err, outcome, result>>
runVars == <<cfg, input, tarPath, safety, warning>>
backupVars == <<bopts, enc, collected, stats, bresult, produced>>
pipeVars == <<site, mpc, wpc, pipe, closed, todo, errCh, werr, encRet, ret>>
writeVars == <<tw, added, wret>>
vars == <<pc, pathVars, exclVars, fsVars, extractVars, runVars, backupVars, pipeVars,
          writeVars>>

----------------------------------------------------------------------------
(* Bounds of the model *)

\* longest enumerated input string of isSafePath
MaxPathLen == 4
\* longest enumerated exclusion pattern
MaxPatLen == 2
\* longest enumerated path handed to isExcluded
MaxExPathLen == 4
\* symbolic links followed in one path resolution before ELOOP
MaxSymlinks == 2
\* most entries in an enumerated archive
MaxEntries == 3

----------------------------------------------------------------------------
(* The values the variables of the other operations keep while one         *)
(* operation is explored.                                                  *)

PathIdle == path = <<>> /\ safe = FALSE
ExclIdle == patterns = <<>> /\ exPath = <<>> /\ excluded = FALSE
FsIdle == fs = <<>> /\ fs0 = <<>> /\ umask = {}
ExtractIdle ==
    /\ opts = <<>> /\ archive = <<>> /\ pos = 0 /\ count = 0
    /\ totalExtracted = 0 /\ err = "" /\ outcome = "" /\ result = <<>>
RunIdle == cfg = <<>> /\ input = <<>> /\ tarPath = <<>> /\ safety = <<>> /\ warning = ""
RunIdle2 == input = <<>> /\ tarPath = <<>> /\ safety = <<>> /\ warning = ""
RestoreIdle == FsIdle /\ ExtractIdle /\ RunIdle
BackupIdle ==
    /\ bopts = <<>> /\ enc = <<>> /\ collected = <<>> /\ stats = <<>>
    /\ bresult = <<>> /\ produced = <<>>
WriteIdle == tw = <<>> /\ added = <<>> /\ wret = ""
PipeIdle ==
    /\ site = "" /\ mpc = "" /\ wpc = "" /\ pipe = "" /\ closed = {} /\ todo = 0
    /\ errCh = <<>> /\ werr = "" /\ encRet = <<>> /\ ret = ""

----------------------------------------------------------------------------
(* Strings: package strings and path/filepath of the Go library, as the   *)
(* code under src/ calls them.                                             *)

Separator == "/"

\* strings.HasPrefix
HasPrefix(s, prefix) ==
    /\ Len(prefix) <= Len(s)
    /\ SubSeq(s, 1, Len(prefix)) = prefix

\* strings.HasSuffix
HasSuffix(s, suffix) ==
    /\ Len(suffix) <= Len(s)
    /\ SubSeq(s, Len(s) - Len(suffix) + 1, Len(s)) = suffix

\* strings.Contains
Contains(s, sub) ==
    \E i \in 0..(Len(s) - Len(sub)) : SubSeq(s, i + 1, i + Len(sub)) = sub

\* strings.ContainsRune
ContainsRune(s, c) == \E i \in 1..Len(s) : s[i] = c

\* strings.TrimPrefix
TrimPrefix(s, prefix) ==
    IF HasPrefix(s, prefix) THEN SubSeq(s, Len(prefix) + 1, Len(s)) ELSE s

\* index of the first sep in s, 0 when there is none
RECURSIVE IndexFrom(_, _, _)
IndexFrom(s, sep, i) ==
    IF i > Len(s) THEN 0
    ELSE IF s[i] = sep THEN i
    ELSE IndexFrom(s, sep, i + 1)

\* index of the last sep in s, 0 when there is none
RECURSIVE LastIndexFrom(_, _, _)
LastIndexFrom(s, sep, i) ==
    IF i < 1 THEN 0
    ELSE IF s[i] = sep THEN i
    ELSE LastIndexFrom(s, sep, i - 1)

\* strings.Split(s, sep) for a one-character sep: Split("") = <<"">>
RECURSIVE Split(_, _)
Split(s, sep) ==
    LET i == IndexFrom(s, sep, 1) IN
    IF i = 0 THEN <<s>>
    ELSE <<SubSeq(s, 1, i - 1)>> \o Split(SubSeq(s, i + 1, Len(s)), sep)

\* slices.Contains
SlicesContains(list, x) == \E i \in 1..Len(list) : list[i] = x

\* strings.Join(elems, "/")
RECURSIVE JoinSlash(_)
JoinSlash(elems) ==
    IF elems = <<>> THEN <<>>
    ELSE IF Len(elems) = 1 THEN elems[1]
    ELSE elems[1] \o <<"/">> \o JoinSlash(Tail(elems))

DotDot == <<".", ".">>
Dot == <<".">>

\* The components filepath.Clean keeps: empty and "." components are dropped,
\* ".." removes the component before it, is dropped at the root, and is kept
\* at the start of a relative path.
RECURSIVE CleanComponents(_, _, _)
CleanComponents(comps, out, rooted) ==
    IF comps = <<>> THEN out
    ELSE LET c == Head(comps) IN
         IF c = <<>> \/ c = Dot
         THEN CleanComponents(Tail(comps), out, rooted)
         ELSE IF c = DotDot
         THEN IF out # <<>> /\ out[Len(out)] # DotDot
              THEN CleanComponents(Tail(comps), SubSeq(out, 1, Len(out) - 1), rooted)
              ELSE IF rooted
              THEN CleanComponents(Tail(comps), out, rooted)
              ELSE CleanComponents(Tail(comps), Append(out, c), rooted)
         ELSE CleanComponents(Tail(comps), Append(out, c), rooted)

\* filepath.Clean
Clean(s) ==
    IF s = <<>> THEN Dot
    ELSE LET rooted == s[1] = "/"
             body == JoinSlash(CleanComponents(Split(s, "/"), <<>>, rooted))
         IN IF rooted THEN <<"/">> \o body
            ELSE IF body = <<>> THEN Dot ELSE body

\* filepath.IsAbs
IsAbs(s) == HasPrefix(s, <<"/">>)

\* filepath.Join of two elements: empty elements are ignored, the rest is
\* joined with the separator and cleaned
Join(a, b) ==
    IF a = <<>> /\ b = <<>> THEN <<>>
    ELSE IF a = <<>> THEN Clean(b)
    ELSE IF b = <<>> THEN Clean(a)
    ELSE Clean(a \o <<"/">> \o b)

\* filepath.Dir
Dir(s) ==
    LET i == LastIndexFrom(s, "/", Len(s)) IN Clean(SubSeq(s, 1, i))

\* s without its trailing slashes
RECURSIVE StripTrailingSlashes(_)
StripTrailingSlashes(s) ==
    IF s # <<>> /\ s[Len(s)] = "/"
    THEN StripTrailingSlashes(SubSeq(s, 1, Len(s) - 1))
    ELSE s

\* filepath.Base
Base(s) ==
    IF s = <<>> THEN Dot
    ELSE LET t == StripTrailingSlashes(s)
             i == LastIndexFrom(t, "/", Len(t))
             b == SubSeq(t, i + 1, Len(t))
         IN IF b = <<>> THEN <<"/">> ELSE b

\* filepath.Abs of a path that is absolute already (every path the restore
\* hands to it is the home directory joined with a name)
Abs(s) == Clean(s)

\* all strings over alphabet of length at most n
StringsUpTo(alphabet, n) == UNION {[1..k -> alphabet] : k \in 0..n}

----------------------------------------------------------------------------
(* Path Safety Validator *)

\* isSafePath without the test of the cleaned form
isSafePath_NoCleanCheck(p) ==
    IF p = <<>> THEN TRUE
    ELSE IF ContainsRune(p, "NUL") THEN FALSE
    ELSE IF IsAbs(p) THEN FALSE
    ELSE IF HasPrefix(p, <<"/">>) \/ HasPrefix(p, <<"~">>) THEN FALSE
    ELSE IF SlicesContains(Split(p, "/"), DotDot) THEN FALSE
    ELSE IF SlicesContains(Split(p, Separator), DotDot) THEN FALSE
    ELSE TRUE

isSafePath(p) ==
    IF p = <<>> THEN TRUE
    ELSE IF ContainsRune(p, "NUL") THEN FALSE
    ELSE IF IsAbs(p) THEN FALSE
    ELSE IF HasPrefix(p, <<"/">>) \/ HasPrefix(p, <<"~">>) THEN FALSE
    ELSE IF HasPrefix(Clean(p), DotDot) THEN FALSE
    ELSE IF SlicesContains(Split(p, "/"), DotDot) THEN FALSE
    ELSE IF SlicesContains(Split(p, Separator), DotDot) THEN FALSE
    ELSE TRUE

\* the prefix test of isPathWithinBase
WithinBase(absTarget, absBase) ==
    HasPrefix(absTarget, absBase \o <<Separator>>) \/ absTarget = absBase

\* isPathWithinBase: both paths made absolute (lexically, no symlink is
\* resolved), then a prefix test
isPathWithinBase(targetPath, baseDir) == WithinBase(Abs(targetPath), Abs(baseDir))

----------------------------------------------------------------------------
(* The file system.  A real location is the sequence of the names from the *)
(* root; fs maps the locations that exist to their nodes.  A path is       *)
(* resolved name by name, following symbolic links as the kernel does.     *)

Root == <<>>

\* the permission bits (the 0o777 part of a mode) and one bit above them
PermBits == {"ur", "uw", "ux", "gr"}
ModeBits == PermBits \cup {"suid"}
Perm0755 == {"ur", "uw", "ux", "gr"}
Perm0700 == {"ur", "uw", "ux"}
Perm0600 == {"ur", "uw"}

FileNode(data, mode) == [kind |-> "file", data |-> data, mode |-> mode, target |-> <<>>]
DirNode(mode) == [kind |-> "dir", data |-> <<>>, mode |-> mode, target |-> <<>>]
LinkNode(target) == [kind |-> "link", data |-> <<>>, mode |-> PermBits, target |-> target]

Parent(loc) == IF loc = <<>> THEN <<>> ELSE SubSeq(loc, 1, Len(loc) - 1)

Resolved(e, loc, exists) == [err |-> e, loc |-> loc, exists |-> exists]

\* Path resolution from directory cur: the real location the names lead to.
\* A symbolic link met on the way is followed; the last name is followed
\* only when followLast.  exists = FALSE: everything but the last name
\* exists, loc is where the last name would be created.
RECURSIVE Walk(_, _, _, _, _)
Walk(f, cur, names, followLast, fuel) ==
    IF names = <<>> THEN Resolved("", cur, TRUE)
    ELSE IF f[cur].kind # "dir" THEN Resolved("ENOTDIR", cur, FALSE)
    ELSE LET c == Head(names)
             rest == Tail(names)
             next == Append(cur, c)
         IN IF c = <<>> \/ c = Dot THEN Walk(f, cur, rest, followLast, fuel)
            ELSE IF c = DotDot THEN Walk(f, Parent(cur), rest, followLast, fuel)
            ELSE IF next \notin DOMAIN f
            THEN IF rest = <<>> THEN Resolved("", next, FALSE)
                 ELSE Resolved("ENOENT", next, FALSE)
            ELSE IF f[next].kind = "link" /\ (rest # <<>> \/ followLast)
            THEN IF fuel = 0 THEN Resolved("ELOOP", next, FALSE)
                 ELSE Walk(f, IF IsAbs(f[next].target) THEN Root ELSE cur,
                           Split(f[next].target, "/") \o rest, followLast, fuel - 1)
            ELSE Walk(f, next, rest, followLast, fuel)

Resolve(f, p, followLast) == Walk(f, Root, Split(p, "/"), followLast, MaxSymlinks)

\* a path that resolves to a place where nothing is does not exist
MustExist(r) ==
    IF r.err = "" /\ ~r.exists THEN Resolved("ENOENT", r.loc, FALSE) ELSE r

\* os.Stat: the node the path leads to, links followed
Stat(f, p) == MustExist(Resolve(f, p, TRUE))

\* os.Lstat: the node the path names, a final link not followed
Lstat(f, p) == MustExist(Resolve(f, p, FALSE))

Done(f, e) == [fs |-> f, err |-> e]

MkdirAt(f, r, perm) ==
    IF r.err # "" THEN Done(f, r.err)
    ELSE IF r.exists THEN Done(f, "EEXIST")
    ELSE Done(f @@ (r.loc :> DirNode(perm \ umask)), "")

\* os.Mkdir
Mkdir(f, p, perm) == MkdirAt(f, Resolve(f, p, FALSE), perm)

IsDirAt(f, st) == st.err = "" /\ f[st.loc].kind = "dir"

\* the end of os.MkdirAll: the error of Mkdir is none when the path is a
\* directory by then
MkdirOrDir(f, mk, ls) == IF mk.err # "" /\ IsDirAt(f, ls) THEN Done(f, "") ELSE mk

MkdirUnder(up, p, perm) ==
    IF up.err # "" THEN up
    ELSE MkdirOrDir(up.fs, Mkdir(up.fs, p, perm), Lstat(up.fs, p))

\* the path up to its last separator
ParentPath(p) == SubSeq(p, 1, LastIndexFrom(p, "/", Len(p)) - 1)

\* os.MkdirAll: nothing to do when the path is a directory, an error when it
\* is something else; otherwise the parent first, then the directory itself
RECURSIVE MkdirAll(_, _, _)
MkdirAllMissing(f, p, perm, parent) ==
    MkdirUnder(IF Len(parent) > 0 THEN MkdirAll(f, parent, perm) ELSE Done(f, ""), p, perm)

MkdirAllStat(f, p, perm, st) ==
    IF st.err = ""
    THEN IF f[st.loc].kind = "dir" THEN Done(f, "") ELSE Done(f, "ENOTDIR")
    ELSE MkdirAllMissing(f, p, perm, ParentPath(p))

MkdirAll(f, p, perm) == MkdirAllStat(f, p, perm, Stat(f, p))

Opened(f, e, loc) == [fs |-> f, err |-> e, loc |-> loc]

OpenAt(f, r, mode) ==
    IF r.err # "" THEN Opened(f, r.err, r.loc)
    ELSE IF r.exists
    THEN IF f[r.loc].kind = "dir" THEN Opened(f, "EISDIR", r.loc)
         ELSE IF "uw" \notin f[r.loc].mode THEN Opened(f, "EACCES", r.loc)
         ELSE Opened([f EXCEPT ![r.loc].data = <<>>], "", r.loc)
    ELSE Opened(f @@ (r.loc :> FileNode(<<>>, mode \ umask)), "", r.loc)

\* os.OpenFile(path, O_CREATE|O_WRONLY|O_TRUNC, mode): an existing file is
\* emptied and keeps its mode, a missing one is created with mode less umask;
\* a final symbolic link is followed.  loc is the node opened.
OpenFileTrunc(f, p, mode) == OpenAt(f, Resolve(f, p, TRUE), mode)

HasChildren(f, loc) == \E l \in DOMAIN f : l # loc /\ Parent(l) = loc /\ Len(l) = Len(loc) + 1

RemoveAt(f, r) ==
    IF r.err # "" THEN Done(f, r.err)
    ELSE IF ~r.exists THEN Done(f, "ENOENT")
    ELSE IF r.loc = Root THEN Done(f, "EBUSY")
    ELSE IF f[r.loc].kind = "dir" /\ HasChildren(f, r.loc) THEN Done(f, "ENOTEMPTY")
    ELSE Done([l \in DOMAIN f \ {r.loc} |-> f[l]], "")

\* os.Remove: unlinks a file or a symbolic link, removes an empty directory
Remove(f, p) == RemoveAt(f, Resolve(f, p, FALSE))

SymlinkAt(f, target, r) ==
    IF r.err # "" THEN Done(f, r.err)
    ELSE IF r.exists THEN Done(f, "EEXIST")
    ELSE Done(f @@ (r.loc :> LinkNode(target)), "")

\* os.Symlink
Symlink(f, target, p) == SymlinkAt(f, target, Resolve(f, p, FALSE))

Min(a, b) == IF a < b THEN a ELSE b

----------------------------------------------------------------------------
(* Category Matcher *)

\* Categories maps category names to path prefixes.
Categories ==
    (<<"s", "h", "e", "l", "l">> :> <<
          <<".", "z", "s", "h", "r", "c">>,
          <<".", "b", "a", "s", "h", "r", "c">>,
          <<".", "p", "r", "o", "f", "i", "l", "e">>,
          <<".", "z", "p", "r", "o", "f", "i", "l", "e">>,
          <<".", "b", "a", "s", "h", "_", "p", "r", "o", "f", "i", "l", "e">>,
          <<".", "z", "s", "h", "e", "n", "v">>,
          <<".", "c", "o", "n", "f", "i", "g", "/", "f", "i", "s", "h">>,
          <<".", "o", "h", "-", "m", "y", "-", "z", "s", "h">>,
          <<".", "p", "1", "0", "k", ".", "z", "s", "h">>>>)
    @@ (<<"g", "i", "t">> :> <<
          <<".", "g", "i", "t", "c", "o", "n", "f", "i", "g">>,
          <<".", "g", "i", "t", "i", "g", "n", "o", "r", "e", "_", "g", "l", "o", "b", "a", "l">>,
          <<".", "c", "o", "n", "f", "i", "g", "/", "g", "i", "t">>>>)
    @@ (<<"e", "d", "i", "t", "o", "r">> :> <<
          <<".", "v", "i", "m", "r", "c">>,
          <<".", "c", "o", "n", "f", "i", "g", "/", "n", "v", "i", "m">>,
          <<".", "c", "o", "n", "f", "i", "g", "/", "h", "e", "l", "i", "x">>,
          <<".", "c", "o", "n", "f", "i", "g", "/", "z", "e", "d">>,
          <<".", "e", "m", "a", "c", "s">>,
          <<".", "e", "m", "a", "c", "s", ".", "d">>,
          <<".", "c", "o", "n", "f", "i", "g", "/", "C", "o", "d", "e">>>>)
    @@ (<<"s", "s", "h">> :> <<
          <<".", "s", "s", "h", "/">>>>)
    @@ (<<"g", "p", "g">> :> <<
          <<".", "g", "n", "u", "p", "g", "/">>>>)
    @@ (<<"p", "y", "t", "h", "o", "n">> :> <<
          <<".", "c", "o", "n", "f", "i", "g", "/", "p", "i", "p">>,
          <<".", "c", "o", "n", "f", "i", "g", "/", "r", "u", "f", "f">>,
          <<".", "c", "o", "n", "f", "i", "g", "/", "m", "y", "p", "y">>,
          <<".", "j", "u", "p", "y", "t", "e", "r">>,
          <<".", "c", "o", "n", "d", "a", "r", "c">>>>)
    @@ (<<"n", "o", "d", "e">> :> <<
          <<".", "n", "p", "m", "r", "c">>,
          <<".", "y", "a", "r", "n", "r", "c">>,
          <<".", "c", "o", "n", "f", "i", "g", "/", "y", "a", "r", "n">>,
          <<".", "b", "u", "n", "f", "i", "g", ".", "t", "o", "m", "l">>>>)
    @@ (<<"r", "u", "s", "t">> :> <<
          <<".", "c", "a", "r", "g", "o", "/">>,
          <<".", "r", "u", "s", "t", "u", "p", "/", "s", "e", "t", "t", "i", "n", "g", "s", ".", "t", "o", "m", "l">>>>)
    @@ (<<"g", "o">> :> <<
          <<".", "c", "o", "n", "f", "i", "g", "/", "g", "o", "/">>>>)
    @@ (<<"c", "l", "o", "u", "d">> :> <<
          <<".", "a", "w", "s", "/">>,
          <<".", "c", "o", "n", "f", "i", "g", "/", "g", "c", "l", "o", "u", "d">>,
          <<".", "a", "z", "u", "r", "e", "/">>,
          <<".", "s", "3", "c", "f", "g">>,
          <<".", "y", "a", "n", "d", "e", "x">>>>)
    @@ (<<"d", "o", "c", "k", "e", "r">> :> <<
          <<".", "d", "o", "c", "k", "e", "r", "/", "c", "o", "n", "f", "i", "g", ".", "j", "s", "o", "n">>,
          <<".", "c", "o", "n", "f", "i", "g", "/", "p", "o", "d", "m", "a", "n">>>>)
    @@ (<<"t", "e", "r", "m", "i", "n", "a", "l">> :> <<
          <<".", "t", "m", "u", "x", ".", "c", "o", "n", "f">>,
          <<".", "c", "o", "n", "f", "i", "g", "/", "w", "e", "z", "t", "e", "r", "m">>,
          <<".", "c", "o", "n", "f", "i", "g", "/", "a", "l", "a", "c", "r", "i", "t", "t", "y">>,
          <<".", "c", "o", "n", "f", "i", "g", "/", "k", "i", "t", "t", "y">>,
          <<".", "c", "o", "n", "f", "i", "g", "/", "s", "t", "a", "r", "s", "h", "i", "p", ".", "t", "o", "m", "l">>,
          <<".", "c", "o", "n", "f", "i", "g", "/", "z", "e", "l", "l", "i", "j">>>>)
    @@ (<<"d", "e", "s", "k", "t", "o", "p">> :> <<
          <<"L", "i", "b", "r", "a", "r", "y", "/", "A", "p", "p", "l", "i", "c", "a", "t", "i", "o", "n", " ", "S", "u", "p", "p", "o", "r", "t">>,
          <<"L", "i", "b", "r", "a", "r", "y", "/", "P", "r", "e", "f", "e", "r", "e", "n", "c", "e", "s">>,
          <<".", "l", "o", "c", "a", "l", "/", "s", "h", "a", "r", "e">>,
          <<".", "c", "o", "n", "f", "i", "g">>>>)
    @@ (<<"a", "i">> :> <<
          <<".", "c", "l", "a", "u", "d", "e">>,
          <<".", "c", "l", "a", "u", "d", "e", ".", "j", "s", "o", "n">>,
          <<".", "c", "o", "d", "e", "x">>,
          <<".", "a", "i">>>>)

UpperToLower ==
    ("A" :> "a") @@ ("B" :> "b") @@ ("C" :> "c") @@ ("D" :> "d") @@ ("E" :> "e") @@ ("F" :> "f") @@ ("G" :> "g") @@ ("H" :> "h") @@ ("I" :> "i") @@ ("J" :> "j") @@ ("K" :> "k") @@ ("L" :> "l") @@ ("M" :> "m") @@ ("N" :> "n") @@ ("O" :> "o") @@ ("P" :> "p") @@ ("Q" :> "q") @@ ("R" :> "r") @@ ("S" :> "s") @@ ("T" :> "t") @@ ("U" :> "u") @@ ("V" :> "v") @@ ("W" :> "w") @@ ("X" :> "x") @@ ("Y" :> "y") @@ ("Z" :> "z")

\* strings.ToLower
ToLower(s) == [i \in 1..Len(s) |-> IF s[i] \in DOMAIN UpperToLower THEN UpperToLower[s[i]] ELSE s[i]]

\* the inner loop of matchesCategory: some prefix of the category starts p
HasCategoryPrefix(p, prefixes) ==
    \E i \in 1..Len(prefixes) : HasPrefix(p, TrimPrefix(prefixes[i], <<".", "/">>))

\* matchesCategory, comparing the category names as they are written
matchesCategory_CaseSensitive(p, categories) ==
    LET q == TrimPrefix(TrimPrefix(p, <<".", "/">>), <<"/">>) IN
    \E i \in 1..Len(categories) :
        /\ categories[i] \in DOMAIN Categories
        /\ HasCategoryPrefix(q, Categories[categories[i]])

matchesCategory(p, categories) ==
    LET q == TrimPrefix(TrimPrefix(p, <<".", "/">>), <<"/">>) IN
    \E i \in 1..Len(categories) :
        /\ ToLower(categories[i]) \in DOMAIN Categories
        /\ HasCategoryPrefix(q, Categories[ToLower(categories[i])])

----------------------------------------------------------------------------
(* Archive Extractor *)

\* the quota constants of osutils, scaled from 1 << 30 and 10 << 30 bytes to
\* sizes the enumerated file contents reach
MaxExtractFileSize == 2
MaxExtractTotalSize == 4

HomeDir == <<"/", "h">>
OutsideDir == <<"/", "o">>

\* a tar header with the content that follows it
Entry(name, typeflag, mode, data, linkname) ==
    [name |-> name, typeflag |-> typeflag, mode |-> mode, size |-> Len(data),
     data |-> data, linkname |-> linkname]

\* the copy of extractFile into the file opened: at most maxSize bytes are
\* written, and one byte more in the stream is an error that leaves them
CopyLimited(out, data, maxSize) ==
    IF out.err # "" THEN Done(out.fs, out.err)
    ELSE IF Len(data) > maxSize
    THEN Done([out.fs EXCEPT ![out.loc].data = SubSeq(data, 1, maxSize)],
              "file exceeds maximum size limit")
    ELSE Done([out.fs EXCEPT ![out.loc].data = data], "")

\* extractFile: the file is created or emptied, then the limited copy
extractFile(f, data, p, mode, maxSize) ==
    CopyLimited(OpenFileTrunc(f, p, mode), data, maxSize)

Step(f, c, t, e, o) == [fs |-> f, count |-> c, total |-> t, err |-> e, outcome |-> o]

DirStep(d, c, t) == Step(d.fs, c, t, "", IF d.err = "" THEN "dir" ELSE "dir failed")

\* a file that cannot be extracted is a warning; one extracted adds its
\* size to the total and one to the count
FileStep(x, c, t, size) ==
    IF x.err # "" THEN Step(x.fs, c, t, "", "file failed")
    ELSE Step(x.fs, c + 1, t + size, "", "file")

LinkStep(sl, c, t) ==
    Step(sl.fs, c, t, "", IF sl.err = "" THEN "symlink" ELSE "symlink failed")

\* the switch on header.Typeflag in extractArchive, the parent directory made
materialize(f, c, t, e, targetPath) ==
    IF e.typeflag = "dir"
    THEN DirStep(MkdirAll(f, targetPath, e.mode \cap PermBits), c, t)
    ELSE IF e.typeflag = "reg"
    THEN FileStep(extractFile(f, e.data, targetPath, e.mode \cap PermBits,
                              MaxExtractFileSize), c, t, e.size)
    ELSE IF e.typeflag = "symlink"
    THEN IF ~isSafePath(e.linkname) THEN Step(f, c, t, "", "unsafe link target")
         ELSE IF ~isPathWithinBase(Join(Dir(targetPath), e.linkname), HomeDir)
         THEN Step(f, c, t, "", "link escapes")
         ELSE LinkStep(Symlink(Remove(f, targetPath).fs, e.linkname, targetPath), c, t)
    ELSE Step(f, c, t, "", "other type")

\* the entry after the parent directory of its target is made
extractUnder(mk, c, t, e, targetPath) ==
    IF mk.err # "" THEN Step(mk.fs, c, t, "", "mkdir failed")
    ELSE materialize(mk.fs, c, t, e, targetPath)

\* the loop body from the within-base test on, a breach of the total quota
\* skipping the entry
extractTo_QuotaSkips(f, c, t, e, o, targetPath) ==
    IF ~isPathWithinBase(targetPath, HomeDir) THEN Step(f, c, t, "", "escapes")
    ELSE IF o.DryRun THEN Step(f, c + 1, t, "", "dry")
    ELSE IF t + e.size > MaxExtractTotalSize
    THEN Step(f, c, t, "", "quota")
    ELSE extractUnder(MkdirAll(f, Dir(targetPath), Perm0755), c, t, e, targetPath)

\* the loop body of extractArchive from the within-base test on
extractTo(f, c, t, e, o, targetPath) ==
    IF ~isPathWithinBase(targetPath, HomeDir) THEN Step(f, c, t, "", "escapes")
    ELSE IF o.DryRun THEN Step(f, c + 1, t, "", "dry")
    ELSE IF t + e.size > MaxExtractTotalSize
    THEN Step(f, c, t, "total extracted size exceeds limit", "quota")
    ELSE extractUnder(MkdirAll(f, Dir(targetPath), Perm0755), c, t, e, targetPath)

\* the loop body of extractArchive with an unsafe name ending the extraction
extractEntry_UnsafeAborts(f, c, t, e, o) ==
    IF ~isSafePath(e.name) THEN Step(f, c, t, "unsafe path", "unsafe")
    ELSE IF Len(o.Categories) > 0 /\ ~matchesCategory(e.name, o.Categories)
    THEN Step(f, c, t, "", "filtered")
    ELSE extractTo(f, c, t, e, o, Join(HomeDir, e.name))

\* the loop body of extractArchive for the header e: file system f, count c
\* and totalExtracted t before it; what they are after it, the error
\* returned ("" when the loop goes on) and what was done
extractEntry(f, c, t, e, o) ==
    IF ~isSafePath(e.name) THEN Step(f, c, t, "", "unsafe")
    ELSE IF Len(o.Categories) > 0 /\ ~matchesCategory(e.name, o.Categories)
    THEN Step(f, c, t, "", "filtered")
    ELSE extractTo(f, c, t, e, o, Join(HomeDir, e.name))

\* extractArchive from the state x on: the entries of a in order, until one
\* returns an error
RECURSIVE extractFrom(_, _, _)
extractFrom(x, a, o) ==
    IF a = <<>> \/ x.err # "" THEN x
    ELSE extractFrom(extractEntry(x.fs, x.count, x.total, Head(a), o), Tail(a), o)

extractArchive(f, a, o) == extractFrom(Step(f, 0, 0, "", ""), a, o)

----------------------------------------------------------------------------
(* Archive writing shared by backup and restore *)

Added(e, entries) == [err |-> e, entries |-> entries]

Header(relPath, typeflag, node) ==
    [name |-> relPath, typeflag |-> typeflag, mode |-> node.mode, size |-> 0,
     data |-> <<>>, linkname |-> node.target]

\* AddFileToTar on the node found: a symbolic link gives a header with its
\* target and no content; anything else is opened, its header written and
\* its content copied (a directory gets its header written before the copy
\* fails)
AddNode(node, relPath) ==
    IF node.kind = "link" THEN Added("", <<Header(relPath, "symlink", node)>>)
    ELSE IF "ur" \notin node.mode THEN Added("EACCES", <<>>)
    ELSE IF node.kind = "dir" THEN Added("EISDIR", <<Header(relPath, "dir", node)>>)
    ELSE Added("", <<Entry(relPath, "reg", node.mode, node.data, <<>>)>>)

AddFileAt(f, info, relPath) ==
    IF info.err # "" THEN Added(info.err, <<>>) ELSE AddNode(f[info.loc], relPath)

\* AddFileToTar: what the tar writer receives for the file at fullPath
AddFileToTar(f, fullPath, relPath) == AddFileAt(f, Lstat(f, fullPath), relPath)

----------------------------------------------------------------------------
(* Safety-Backup Generator *)

\* sensitivePatterns are path prefixes that indicate sensitive files.
sensitivePatterns == <<<<".", "s", "s", "h">>,
    <<".", "g", "n", "u", "p", "g">>,
    <<".", "a", "w", "s">>,
    <<".", "c", "o", "n", "f", "i", "g", "/", "g", "c", "l", "o", "u", "d">>,
    <<".", "a", "z", "u", "r", "e">>,
    <<".", "k", "u", "b", "e">>,
    <<".", "t", "e", "r", "r", "a", "f", "o", "r", "m">>,
    <<".", "d", "o", "c", "k", "e", "r">>,
    <<".", "p", "y", "p", "i", "r", "c">>>>

IsSensitive(file) == \E i \in 1..Len(sensitivePatterns) : HasPrefix(file, sensitivePatterns[i])

\* containsSensitiveFiles
containsSensitiveFiles(files) == \E i \in 1..Len(files) : IsSensitive(files[i])

\* filterSensitiveFiles
RECURSIVE filterSensitiveFiles(_)
filterSensitiveFiles(files) ==
    IF files = <<>> THEN <<>>
    ELSE IF IsSensitive(Head(files)) THEN filterSensitiveFiles(Tail(files))
    ELSE <<Head(files)>> \o filterSensitiveFiles(Tail(files))

\* canEncrypt: age recipients configured and present and age installed, or
\* else a gpg recipient configured and gpg installed
canEncrypt(c, f) ==
    IF c.AgeRecipients # <<>> /\ Stat(f, c.AgeRecipients).err = "" THEN c.HasAge
    ELSE IF c.GPGRecipient # <<>> THEN c.HasGPG
    ELSE FALSE

\* exec finds the tool of the method
ToolInstalled(c, method) ==
    IF method = <<"a", "g", "e">> THEN c.HasAge
    ELSE IF method = <<"g", "p", "g">> THEN c.HasGPG
    ELSE FALSE

\* crypto.DetectMethod
DetectMethod(filePath) ==
    IF HasSuffix(filePath, <<".", "a", "g", "e">>) THEN <<"a", "g", "e">>
    ELSE IF HasSuffix(filePath, <<".", "g", "p", "g">>) THEN <<"g", "p", "g">>
    ELSE <<>>

\* promptForSensitiveBackup: the files to save for the answer given, or the
\* error that cancels
promptForSensitiveBackup(files, choice) ==
    IF choice = "no input" THEN [err |-> "cancelled: no input received", files |-> <<>>]
    ELSE IF choice = "1" THEN [err |-> "", files |-> files]
    ELSE IF choice = "2" THEN [err |-> "", files |-> filterSensitiveFiles(files)]
    ELSE IF choice \in {"3", ""} THEN [err |-> "restore cancelled by user", files |-> <<>>]
    ELSE [err |-> "invalid choice", files |-> <<>>]

PromptChoices == {"1", "2", "3", "", "x", "no input"}

\* findFilesToBackup without the category filter
keepsForBackup_NoCategoryFilter(f, header, o) ==
    /\ header.typeflag # "dir"
    /\ isSafePath(header.name)
    /\ Stat(f, Join(HomeDir, header.name)).err = ""

\* whether findFilesToBackup keeps the header: no directory, a safe name,
\* the category filter passed, the target there
keepsForBackup(f, header, o) ==
    /\ header.typeflag # "dir"
    /\ isSafePath(header.name)
    /\ ~(Len(o.Categories) > 0 /\ ~matchesCategory(header.name, o.Categories))
    /\ Stat(f, Join(HomeDir, header.name)).err = ""

\* findFilesToBackup: the names of the entries that are no directories, are
\* safe, pass the category filter and whose target exists
RECURSIVE findFilesToBackup(_, _, _)
findFilesToBackup(f, a, o) ==
    IF a = <<>> THEN <<>>
    ELSE (IF keepsForBackup(f, Head(a), o) THEN <<Head(a).name>> ELSE <<>>)
         \o findFilesToBackup(f, Tail(a), o)

\* writeSafetyArchive: the entries AddFileToTar writes for the files in order;
\* a file that cannot be added is passed over
RECURSIVE writeSafetyArchive(_, _)
writeSafetyArchive(f, filesToBackup) ==
    IF filesToBackup = <<>> THEN <<>>
    ELSE AddFileToTar(f, Join(HomeDir, Head(filesToBackup)), Head(filesToBackup)).entries
         \o writeSafetyArchive(f, Tail(filesToBackup))

preRestoreName == <<"p", "r", "e", "-", "r", "e", "s", "t", "o", "r", "e">>
\* the name of a safety archive, its timestamp left out
safetyArchiveName == <<"p", "r", "e", ".", "t", "a", "r", ".", "g", "z">>
GzipBytes == <<"gzip">>
CipherBytes == <<"ciphertext">>

Saved(f, p, e, sv) == [fs |-> f, path |-> p, err |-> e, safety |-> sv]

\* the archive written into the file opened
SaveTo(out, archivePath, method, bytes, entries, sv) ==
    IF out.err # "" THEN Saved(out.fs, <<>>, out.err, sv)
    ELSE Saved([out.fs EXCEPT ![out.loc].data = bytes], archivePath, "",
               Append(sv, [path |-> archivePath, method |-> method, entries |-> entries]))

\* the unencrypted path of createSafetyBackup
saveUnencrypted(f, archivePath, entries, sv) ==
    SaveTo(OpenFileTrunc(f, archivePath, Perm0600), archivePath, <<>>, GzipBytes, entries, sv)

\* the encrypted path of createSafetyBackup once the encryptor ran: its
\* failure falls through to the unencrypted path
saveEncrypted(out, f, dir, encryptedPath, method, entries, sv) ==
    IF out.err # "" THEN saveUnencrypted(f, Join(dir, safetyArchiveName), entries, sv)
    ELSE SaveTo(out, encryptedPath, method, CipherBytes, entries, sv)

saveInto(f, c, dir, method, entries, encOk, sv) ==
    IF method # <<>> /\ encOk /\ ToolInstalled(c, method)
    THEN saveEncrypted(OpenFileTrunc(f, Join(dir, safetyArchiveName \o <<".">> \o method),
                                     Perm0600),
                       f, dir, Join(dir, safetyArchiveName \o <<".">> \o method), method,
                       entries, sv)
    ELSE saveUnencrypted(f, Join(dir, safetyArchiveName), entries, sv)

saveUnder(mk, c, dir, method, filesToBackup, encOk, sv) ==
    IF mk.err # "" THEN Saved(mk.fs, <<>>, mk.err, sv)
    ELSE saveInto(mk.fs, c, dir, method, writeSafetyArchive(mk.fs, filesToBackup), encOk, sv)

\* createSafetyBackup with the files to save chosen: the pre-restore
\* directory, then the archive through the encryptor when the archive
\* restored is encrypted (encOk: EncryptReader succeeds), and the
\* unencrypted archive otherwise or when the encryptor failed
writeSafetyBackup(f, c, originalArchive, filesToBackup, encOk, sv) ==
    saveUnder(MkdirAll(f, Join(c.BackupDir, preRestoreName), Perm0700), c,
              Join(c.BackupDir, preRestoreName), DetectMethod(originalArchive),
              filesToBackup, encOk, sv)

\* createSafetyBackup once the prompt, if any, is answered
safetyOfAnswer(f, answer, c, originalArchive, encOk, sv) ==
    IF answer.err # "" THEN Saved(f, <<>>, answer.err, sv)
    ELSE IF answer.files = <<>> THEN Saved(f, <<>>, "", sv)
    ELSE writeSafetyBackup(f, c, originalArchive, answer.files, encOk, sv)

\* createSafetyBackup once the files to back up are found
safetyOfFound(f, found, c, originalArchive, choice, encOk, sv) ==
    IF found = <<>> THEN Saved(f, <<>>, "", sv)
    ELSE safetyOfAnswer(f, IF containsSensitiveFiles(found) /\ ~canEncrypt(c, f)
                           THEN promptForSensitiveBackup(found, choice)
                           ELSE [err |-> "", files |-> found],
                        c, originalArchive, encOk, sv)

\* createSafetyBackup
createSafetyBackup(f, a, o, c, originalArchive, choice, encOk, sv) ==
    safetyOfFound(f, findFilesToBackup(f, a, o), c, originalArchive, choice, encOk, sv)

----------------------------------------------------------------------------
(* Restore.Run *)

NeedsDecrypt(archivePath) ==
    HasSuffix(archivePath, <<".", "a", "g", "e">>) \/ HasSuffix(archivePath, <<".", "g", "p", "g">>)

NoResult == [Success |-> FALSE, Error |-> "", SafetyBackup |-> <<>>]

\* osutils.TempDir, and the name os.CreateTemp picks in it
TempDirPath == Join(HomeDir, <<".", "c", "a", "c", "h", "e", "/", "d", "o", "t", "p", "a", "k", "/", "t", "m", "p">>)
TempFileName == <<"d", "o", "t", "p", "a", "k", "-", "d", "e", "c", "r", "y", "p", "t", ".", "t", "a", "r", ".", "g", "z">>

\* Run up to the decryption: the archive must exist
RunStart ==
    /\ pc = "start"
    /\ IF ~input.exists
       THEN /\ result' = [result EXCEPT !.Error = "archive not found"]
            /\ pc' = "done"
       ELSE /\ result' = result
            /\ pc' = IF NeedsDecrypt(input.archivePath) THEN "decrypt" ELSE "safety"
    /\ UNCHANGED <<writeVars, pipeVars, pathVars, exclVars, fsVars, opts, archive, pos, count,
                   totalExtracted, err, outcome, runVars, backupVars>>

\* decryptArchive after the temporary file is made: the decryption tool
\* succeeds or fails, and a failure leaves the file
decryptInto(tmp, ok) ==
    IF tmp.err # ""
    THEN /\ fs' = tmp.fs
         /\ tarPath' = tarPath
         /\ result' = [result EXCEPT !.Error = "decryption failed"]
         /\ pc' = "done"
    ELSE IF ~ok
    THEN /\ fs' = tmp.fs
         /\ tarPath' = tarPath
         /\ result' = [result EXCEPT !.Error = "decryption failed"]
         /\ pc' = "done"
    ELSE /\ fs' = [tmp.fs EXCEPT ![tmp.loc].data = GzipBytes]
         /\ tarPath' = Join(TempDirPath, TempFileName)
         /\ result' = result
         /\ pc' = "safety"

\* osutils.CreateTempFile: the temporary directory, then the file in it
CreateTempIn(dir) ==
    IF dir.err # "" THEN Opened(dir.fs, dir.err, Root)
    ELSE OpenFileTrunc(dir.fs, Join(TempDirPath, TempFileName), Perm0600)

CreateTempFile(f) == CreateTempIn(MkdirAll(f, TempDirPath, Perm0700))

\* decryptArchive: a temporary file in the temporary directory under home,
\* then the decryption tool, which succeeds or fails
DecryptArchive ==
    /\ pc = "decrypt"
    /\ \E decryptOk \in BOOLEAN :
        decryptInto(CreateTempFile(fs),
                    decryptOk /\ ToolInstalled(cfg, DetectMethod(input.archivePath)))
    /\ UNCHANGED <<writeVars, pipeVars, pathVars, exclVars, fs0, umask, opts, archive, pos, count,
                   totalExtracted, err, outcome, cfg, input, safety, warning, backupVars>>

\* what Run keeps of createSafetyBackup: a failure is a warning
takeSafety(sb) ==
    /\ fs' = sb.fs
    /\ safety' = sb.safety
    /\ warning' = sb.err
    /\ result' = IF sb.err = "" /\ sb.path # <<>>
                 THEN [result EXCEPT !.SafetyBackup = sb.path]
                 ELSE result

\* the safety backup made in a dry run as well
SafetyBackup_InDryRun ==
    /\ pc = "safety"
    /\ IF ~opts.NoBackup
       THEN \E choice \in PromptChoices, encOk \in BOOLEAN :
              takeSafety(createSafetyBackup(fs, archive, opts, cfg, input.archivePath,
                                            choice, encOk, safety))
       ELSE UNCHANGED <<fs, safety, warning, result>>
    /\ pc' = "extract"
    /\ UNCHANGED <<writeVars, pipeVars, pathVars, exclVars, fs0, umask, opts, archive, pos, count,
                   totalExtracted, err, outcome, cfg, input, tarPath, backupVars>>

\* the safety backup of Run, made unless NoBackup or DryRun; its failure is
\* a warning and the restore goes on
SafetyBackup ==
    /\ pc = "safety"
    /\ IF ~opts.NoBackup /\ ~opts.DryRun
       THEN \E choice \in PromptChoices, encOk \in BOOLEAN :
              takeSafety(createSafetyBackup(fs, archive, opts, cfg, input.archivePath,
                                            choice, encOk, safety))
       ELSE UNCHANGED <<fs, safety, warning, result>>
    /\ pc' = "extract"
    /\ UNCHANGED <<writeVars, pipeVars, pathVars, exclVars, fs0, umask, opts, archive, pos, count,
                   totalExtracted, err, outcome, cfg, input, tarPath, backupVars>>

\* what the loop keeps of one entry: an error ends extractArchive
takeStep(x) ==
    /\ fs' = x.fs
    /\ count' = x.count
    /\ totalExtracted' = x.total
    /\ err' = x.err
    /\ outcome' = x.outcome
    /\ pc' = IF x.err # "" THEN "return" ELSE "extract"

\* one turn of the loop of extractArchive: the next header and its entry
ExtractEntry ==
    /\ pc = "extract"
    /\ pos < Len(archive)
    /\ takeStep(extractEntry(fs, count, totalExtracted, archive[pos + 1], opts))
    /\ pos' = pos + 1
    /\ UNCHANGED <<writeVars, pipeVars, pathVars, exclVars, fs0, umask, opts, archive, result, runVars,
                   backupVars>>

\* tarReader.Next returns io.EOF: extractArchive returns count and no error
ExtractEOF ==
    /\ pc = "extract"
    /\ pos = Len(archive)
    /\ pc' = "return"
    /\ UNCHANGED <<writeVars, pipeVars, pathVars, exclVars, fsVars, extractVars, runVars, backupVars>>

\* Run after extractArchive returned: the result, and the deferred removal
\* of the decrypted archive
RunFinish ==
    /\ pc = "return"
    /\ result' = IF err # ""
                 THEN [result EXCEPT !.Error = "extraction failed"]
                 ELSE [result EXCEPT !.Success = TRUE]
    /\ fs' = IF tarPath # <<>> THEN Remove(fs, tarPath).fs ELSE fs
    /\ pc' = "done"
    /\ UNCHANGED <<writeVars, pipeVars, pathVars, exclVars, fs0, umask, opts, archive, pos, count,
                   totalExtracted, err, outcome, runVars, backupVars>>

----------------------------------------------------------------------------
(* The archives and the home directories the restore is run on *)

MaxRunEntries == 2

Bytes1 == <<"1">>
Bytes12 == <<"1", "2">>
Bytes3 == <<"3">>
Bytes123 == <<"1", "2", "3">>
OldBytes == <<"9">>

zshrcEntry == Entry(<<".", "z", "s", "h", "r", "c">>, "reg", Perm0600, Bytes1, <<>>)
gitconfigEntry == Entry(<<".", "g", "i", "t", "c", "o", "n", "f", "i", "g">>, "reg", Perm0755 \cup {"suid"}, Bytes12, <<>>)
sshKeyEntry == Entry(<<".", "s", "s", "h", "/", "k">>, "reg", Perm0600, Bytes12, <<>>)
escapingEntry == Entry(<<".", ".", "/", "x">>, "reg", Perm0600, Bytes12, <<>>)
bigEntry == Entry(<<"b", "i", "g">>, "reg", Perm0600, Bytes123, <<>>)
sshDirEntry == Entry(<<".", "s", "s", "h">>, "dir", Perm0700, <<>>, <<>>)
zshrcLinkEntry == Entry(<<".", "z", "s", "h", "r", "c">>, "symlink", PermBits, <<>>, <<".", "g", "i", "t", "c", "o", "n", "f", "i", "g">>)
dotSlashSlashEntry == Entry(<<".", "/", "/", ".", "z", "s", "h", "r", "c">>, "reg", Perm0600, Bytes3, <<>>)
\* a symbolic link in a directory that home does not have, its target absolute
absLinkEntry == Entry(<<"d", "/", "l">>, "symlink", PermBits, <<>>, <<"/", "o">>)

EntryPool == {zshrcEntry, gitconfigEntry, sshKeyEntry, escapingEntry, bigEntry,
              sshDirEntry, zshrcLinkEntry, dotSlashSlashEntry, absLinkEntry}

RunEntryPool == {zshrcEntry, sshKeyEntry, escapingEntry}

\* the sequences of at most n different entries of pool
ArchivesOf(pool, n) ==
    UNION { { a \in [1..k -> pool] : \A i, j \in 1..k : a[i] = a[j] => i = j } : k \in 0..n }

homeName == <<"h">>
outsideName == <<"o">>

\* home empty, and a directory outside home with a file in it
EmptyHome ==
    (Root :> DirNode(Perm0755)) @@ (<<homeName>> :> DirNode(Perm0755))
    @@ (<<outsideName>> :> DirNode(Perm0755)) @@ (<<outsideName, <<"f">>>> :> FileNode(OldBytes, Perm0600))

\* home with a .zshrc of other content and another mode
HomeWithZshrc ==
    EmptyHome @@ (<<homeName, <<".", "z", "s", "h", "r", "c">>>> :> FileNode(OldBytes, Perm0755))

\* home whose .ssh is a symbolic link to the directory outside
HomeWithSshLink ==
    EmptyHome @@ (<<homeName, <<".", "s", "s", "h">>>> :> LinkNode(OutsideDir))

\* home whose .zshrc is a symbolic link to the file outside
HomeWithZshrcLink ==
    EmptyHome @@ (<<homeName, <<".", "z", "s", "h", "r", "c">>>> :> LinkNode(OutsideDir \o <<"/", "f">>))

\* home with a .zshrc, a key in .ssh and the age recipients file
HomeWithKey ==
    HomeWithZshrc @@ (<<homeName, <<".", "s", "s", "h">>>> :> DirNode(Perm0700))
    @@ (<<homeName, <<".", "s", "s", "h">>, <<"k">>>> :> FileNode(OldBytes, Perm0600))
    @@ (<<homeName, <<"r">>>> :> FileNode(OldBytes, Perm0600))

Homes == {EmptyHome, HomeWithZshrc, HomeWithSshLink, HomeWithZshrcLink}
RunHomes == {EmptyHome, HomeWithKey}

\* umask 000 and a umask that takes the group bit
Umasks == {{}, {"gr"}}

shell == <<"s", "h", "e", "l", "l">>
SSH == <<"S", "S", "H">>
nope == <<"n", "o", "p", "e">>
Options(dryRun, noBackup, categories) ==
    [DryRun |-> dryRun, NoBackup |-> noBackup, Categories |-> categories]
ExtractOptions ==
    {Options(FALSE, TRUE, <<>>), Options(FALSE, TRUE, <<shell>>),
     Options(FALSE, TRUE, <<SSH, nope>>), Options(FALSE, TRUE, <<nope>>),
     Options(TRUE, TRUE, <<>>), Options(TRUE, TRUE, <<shell>>)}

plainArchivePath == <<"/", "b", "/", "a", ".", "t", "a", "r", ".", "g", "z">>
ageArchivePath == <<"/", "b", "/", "a", ".", "t", "a", "r", ".", "g", "z", ".", "a", "g", "e">>
gpgArchivePath == <<"/", "b", "/", "a", ".", "t", "a", "r", ".", "g", "z", ".", "g", "p", "g">>

Config(age, gpg, hasAge, hasGPG) ==
    [BackupDir |-> <<"/", "h", "/", "b">>, AgeRecipients |-> age, GPGRecipient |-> gpg,
     HasAge |-> hasAge, HasGPG |-> hasGPG]

recipientsPath == <<"/", "h", "/", "r">>
NoEncryptionConfig == Config(<<>>, <<>>, TRUE, TRUE)
Configs == {NoEncryptionConfig,
            Config(recipientsPath, <<>>, TRUE, FALSE),
            Config(recipientsPath, <<>>, FALSE, FALSE),
            Config(recipientsPath, <<"k">>, FALSE, TRUE),
            Config(<<>>, <<"k">>, FALSE, FALSE)}

RestoreStart ==
    /\ pc = "start"
    /\ fs0 = fs
    /\ pos = 0 /\ count = 0 /\ totalExtracted = 0 /\ err = "" /\ outcome = ""
    /\ result = NoResult
    /\ tarPath = <<>>
    /\ safety = <<>>
    /\ warning = ""

----------------------------------------------------------------------------
(* SpecExtract: Run on a plain archive that exists, without safety backup *)

InitExtract ==
    /\ PathIdle /\ ExclIdle /\ PipeIdle /\ WriteIdle /\ BackupIdle
    /\ fs \in Homes
    /\ umask = {}
    /\ archive \in ArchivesOf(EntryPool, MaxEntries)
    /\ opts \in ExtractOptions
    /\ cfg = NoEncryptionConfig
    /\ input = [archivePath |-> plainArchivePath, exists |-> TRUE]
    /\ RestoreStart

NextExtract == RunStart \/ SafetyBackup \/ ExtractEntry \/ ExtractEOF \/ RunFinish

SpecExtract == InitExtract /\ [][NextExtract]_vars

----------------------------------------------------------------------------
(* SpecRun: Run on any archive path, with or without safety backup *)

InitRun ==
    /\ PathIdle /\ ExclIdle /\ PipeIdle /\ WriteIdle /\ BackupIdle
    /\ fs \in RunHomes
    /\ umask = {}
    /\ archive \in ArchivesOf(RunEntryPool, MaxRunEntries)
    /\ opts \in [DryRun : BOOLEAN, NoBackup : BOOLEAN, Categories : {<<>>, <<shell>>}]
    /\ cfg \in Configs
    /\ input \in [archivePath : {plainArchivePath, ageArchivePath, gpgArchivePath},
                  exists : BOOLEAN]
    /\ RestoreStart

NextRun ==
    RunStart \/ DecryptArchive \/ SafetyBackup \/ ExtractEntry \/ ExtractEOF \/ RunFinish

SpecRun == InitRun /\ [][NextRun]_vars

----------------------------------------------------------------------------
(* Properties of the extraction *)

InHome(loc) == Len(loc) >= 1 /\ loc[1] = homeName

HomeLoc(name) == <<homeName, name>>

\* the loop of extractArchive has handled the entry archive[pos]
Handled == pos > 0 /\ pc \in {"extract", "return", "done"}

\* extractArchive up to the entry before archive[pos]
Before == extractArchive(fs0, SubSeq(archive, 1, pos - 1), opts)

IsSafeEntry(e) == isSafePath(e.name)
SafeOnly(a) == SelectSeq(a, IsSafeEntry)

\* the entry passes the name, category and within-base tests of the loop
PassesChecks(e) ==
    /\ isSafePath(e.name)
    /\ Len(opts.Categories) = 0 \/ matchesCategory(e.name, opts.Categories)
    /\ isPathWithinBase(Join(HomeDir, e.name), HomeDir)

NoFilterNoDryRun == Options(FALSE, TRUE, <<>>)

\* Run ended as the extraction x does
EndsAs(x) ==
    /\ fs = x.fs /\ count = x.count /\ err = x.err
    /\ result.Success <=> x.err = ""

\* C2: an entry whose name fails isSafePath is skipped with no change of the
\* file system, the count or the total and with no error; the outcome of the
\* whole extraction is the one of the archive without its unsafe entries, so
\* the safe entries before and after it are extracted and counted and Run
\* reports success unless one of them ends the extraction.
C2_UnsafeEntrySkipped ==
    /\ (Handled /\ ~isSafePath(archive[pos].name)) =>
          /\ outcome = "unsafe" /\ err = ""
          /\ fs = Before.fs /\ count = Before.count /\ totalExtracted = Before.total
    /\ pc = "done" => EndsAs(extractArchive(fs0, SafeOnly(archive), opts))
    /\ (/\ pc = "done" /\ archive = <<zshrcEntry, escapingEntry, gitconfigEntry>>
        /\ fs0 = EmptyHome /\ opts = NoFilterNoDryRun) =>
          /\ result.Success /\ count = 2
          /\ fs = EmptyHome
                  @@ (HomeLoc(<<".", "z", "s", "h", "r", "c">>) :> FileNode(Bytes1, Perm0600))
                  @@ (HomeLoc(<<".", "g", "i", "t", "c", "o", "n", "f", "i", "g">>) :> FileNode(Bytes12, Perm0755))

C2_Witness ==
    /\ pc = "done" /\ archive = <<zshrcEntry, escapingEntry, gitconfigEntry>>
    /\ fs0 = EmptyHome /\ opts = NoFilterNoDryRun
    /\ result.Success /\ count = 2

\* C3: a non-dry-run extraction leaves everything outside the home directory
\* as it was: no node is created, removed or changed at a real location that
\* is not under home, also when a directory on the way to the target, or the
\* target itself, is a symbolic link that points outside home.
C3_NothingOutsideHome ==
    ~opts.DryRun =>
        \A loc \in DOMAIN fs \cup DOMAIN fs0 :
            ~InHome(loc) => loc \in DOMAIN fs /\ loc \in DOMAIN fs0 /\ fs[loc] = fs0[loc]

\* C4 as stated: in a non-dry-run extraction every entry reached with total +
\* size above MaxExtractTotalSize ends the extraction with an error, the
\* count and the files of the entries before it kept.
C4_QuotaStopsAtAnyEntry ==
    (/\ Handled /\ ~opts.DryRun
     /\ Before.total + archive[pos].size > MaxExtractTotalSize) =>
        /\ err # "" /\ pc \in {"return", "done"}
        /\ count = Before.count /\ fs = Before.fs
        /\ pc = "done" => ~result.Success

\* C4: in a non-dry-run extraction an entry that passes the name, category
\* and within-base tests and is reached with total + size above
\* MaxExtractTotalSize ends the extraction: extractArchive returns an error
\* with the count so far, no later entry is handled, and the files of the
\* entries before it stay as they were written.
C4_QuotaStopsAtCheckedEntry ==
    /\ (/\ Handled /\ ~opts.DryRun /\ PassesChecks(archive[pos])
        /\ Before.total + archive[pos].size > MaxExtractTotalSize) =>
          /\ err # "" /\ outcome = "quota" /\ pc \in {"return", "done"}
          /\ count = Before.count /\ fs = Before.fs
          /\ pc = "done" => ~result.Success
    /\ err # "" => pc \in {"return", "done"}
    /\ totalExtracted <= MaxExtractTotalSize

C4_Witness ==
    /\ pc = "done" /\ outcome = "quota" /\ err # "" /\ ~result.Success
    /\ archive = <<gitconfigEntry, sshKeyEntry, zshrcEntry>> /\ pos = 3
    /\ count = 2
    /\ fs0 = EmptyHome
    /\ HomeLoc(<<".", "g", "i", "t", "c", "o", "n", "f", "i", "g">>) \in DOMAIN fs
    /\ HomeLoc(<<".", "z", "s", "h", "r", "c">>) \notin DOMAIN fs

\* C5: in a non-dry-run extraction a regular-file entry with more content
\* than MaxExtractFileSize ends the whole extraction with an error.
C5_OversizeFileAborts ==
    (/\ Handled /\ ~opts.DryRun /\ PassesChecks(archive[pos])
     /\ archive[pos].typeflag = "reg"
     /\ archive[pos].size > MaxExtractFileSize
     /\ Before.total + archive[pos].size <= MaxExtractTotalSize) =>
        err # "" /\ pc \in {"return", "done"}

\* the name with one leading "./" or one leading "/" taken off
StripOne(p) ==
    IF HasPrefix(p, <<".", "/">>) THEN SubSeq(p, 3, Len(p))
    ELSE IF HasPrefix(p, <<"/">>) THEN SubSeq(p, 2, Len(p))
    ELSE p

\* the name with a leading "./" and then a leading "/" taken off
StripBoth(p) ==
    LET q == IF HasPrefix(p, <<".", "/">>) THEN SubSeq(p, 3, Len(p)) ELSE p
    IN IF HasPrefix(q, <<"/">>) THEN SubSeq(q, 2, Len(q)) ELSE q

\* q starts with a prefix registered under a category whose name is one of
\* the selected names, letter case apart
StartsWithSelectedPrefix(q, selection) ==
    \E i \in 1..Len(selection), name \in DOMAIN Categories :
        /\ ToLower(selection[i]) = ToLower(name)
        /\ \E j \in 1..Len(Categories[name]) :
               \E n \in 0..Len(q) : SubSeq(q, 1, n) = Categories[name][j]

OnlyUnknownNames(selection) ==
    /\ Len(selection) > 0
    /\ \A i \in 1..Len(selection) :
           \A name \in DOMAIN Categories : ToLower(selection[i]) # ToLower(name)

Materialized == {"file", "dir", "symlink"}

\* C8 as stated: with a non-empty selection an entry is materialized only if
\* its name with one leading "./" or "/" taken off starts with a selected
\* prefix.
C8_FilterStripsOnePrefix ==
    (Handled /\ Len(opts.Categories) > 0 /\ outcome \in Materialized) =>
        StartsWithSelectedPrefix(StripOne(archive[pos].name), opts.Categories)

\* C8: with a non-empty selection a safe entry goes past the filter exactly
\* when its name, a leading "./" and then a leading "/" taken off, starts
\* with a prefix registered under a selected category, names compared without
\* regard to case; a selection of unknown names only extracts nothing; with
\* an empty selection no entry is filtered out although matchesCategory is
\* false for the empty selection.
C8_CategoryFilter ==
    /\ (Handled /\ Len(opts.Categories) > 0 /\ isSafePath(archive[pos].name)) =>
          (outcome # "filtered" <=>
              StartsWithSelectedPrefix(StripBoth(archive[pos].name), opts.Categories))
    /\ (Handled /\ outcome \in Materialized /\ Len(opts.Categories) > 0) =>
          StartsWithSelectedPrefix(StripBoth(archive[pos].name), opts.Categories)
    /\ OnlyUnknownNames(opts.Categories) => fs = fs0 /\ count = 0
    /\ (Handled /\ Len(opts.Categories) = 0) =>
          /\ outcome # "filtered"
          /\ ~matchesCategory(archive[pos].name, opts.Categories)
    /\ (pc = "done" /\ Len(opts.Categories) = 0 /\ ~opts.DryRun /\ err = "") =>
          \A i \in 1..Len(archive) :
              (archive[i].typeflag = "reg" /\ PassesChecks(archive[i])
               /\ archive[i].size <= MaxExtractFileSize) =>
                  Lstat(fs, Join(HomeDir, archive[i].name)).err = ""

C8_Witness ==
    /\ Handled /\ opts.Categories = <<shell>> /\ ~opts.DryRun
    /\ archive[pos] = dotSlashSlashEntry /\ outcome = "file"
    /\ pos > 1 /\ archive[1] = gitconfigEntry
    /\ HomeLoc(<<".", "g", "i", "t", "c", "o", "n", "f", "i", "g">>) \notin DOMAIN fs

\* C22: no file system change is made for an entry before its name has
\* passed isSafePath and isPathWithinBase and, for a symbolic link, before
\* its link target has passed both: an entry rejected by one of these tests
\* leaves the file system as it was, its parent directory not created and no
\* existing file removed.
C22_RejectedEntryChangesNothing ==
    (/\ Handled /\ ~opts.DryRun
     /\ outcome \in {"unsafe", "escapes", "unsafe link target", "link escapes"}) =>
        fs = Before.fs

\* the files that are new or are not as they were when the extraction began
WrittenFiles ==
    {loc \in DOMAIN fs :
        fs[loc].kind = "file" /\ (loc \notin DOMAIN fs0 \/ fs0[loc] # fs[loc])}

RECURSIVE ContentBytes(_)
ContentBytes(locs) ==
    IF locs = {} THEN 0
    ELSE Len(fs[CHOOSE l \in locs : TRUE].data)
         + ContentBytes(locs \ {CHOOSE l \in locs : TRUE})

\* C26: the content bytes one non-dry-run extractArchive writes to disk are
\* never more than MaxExtractTotalSize, the bytes written for entries whose
\* extraction failed counted too.
C26_WrittenBytesWithinTotal ==
    ~opts.DryRun => ContentBytes(WrittenFiles) <= MaxExtractTotalSize

\* the extraction of the first n entries with the same archive, selection
\* and home directory, and DryRun off
RealRun(n) == extractArchive(fs0, SubSeq(archive, 1, n), [opts EXCEPT !.DryRun = FALSE])

\* the real extraction meets no quota and no failure of the file system
RealRunClean ==
    \A n \in 1..Len(archive) :
        /\ RealRun(n).err = ""
        /\ RealRun(n).outcome \notin {"quota", "mkdir failed", "dir failed", "file failed",
                                      "symlink failed"}

\* C30: for the same archive, category selection and home directory, the
\* count a dry-run extractArchive returns is the count the real extraction
\* returns when it meets no quota and no I/O error, whether the entries are
\* regular files, symbolic links or directories.
C30_DryRunCountIsRealCount ==
    (pc = "done" /\ opts.DryRun /\ err = "" /\ RealRunClean) =>
        count = RealRun(Len(archive)).count

----------------------------------------------------------------------------
(* Properties of Run *)

\* the locations of the temporary directory of the decryption, the
\* directories above it and the temporary file in it
TempLocs ==
    LET cache == <<".", "c", "a", "c", "h", "e">>
        dotpak == <<"d", "o", "t", "p", "a", "k">>
        tmp == <<"t", "m", "p">>
    IN {<<homeName, cache>>, <<homeName, cache, dotpak>>, <<homeName, cache, dotpak, tmp>>,
        <<homeName, cache, dotpak, tmp, TempFileName>>}

\* the number of entries of a that pass the tests of the loop
CountPassing(a) == Len(SelectSeq(a, PassesChecks))

\* C9 as stated: a Run with DryRun changes nothing under the home directory
\* and creates no safety backup.
C9_DryRunChangesNothing ==
    opts.DryRun =>
        /\ safety = <<>> /\ result.SafetyBackup = <<>>
        /\ \A loc \in DOMAIN fs \cup DOMAIN fs0 :
               InHome(loc) => loc \in DOMAIN fs /\ loc \in DOMAIN fs0 /\ fs[loc] = fs0[loc]

\* C9: a Run with DryRun creates no safety backup, and its extractArchive
\* creates nothing and counts the entries that pass the name, category and
\* within-base tests; every node that existed before the run keeps its
\* content and mode; nothing is created but, when the archive is encrypted,
\* the temporary directory of the decryption and the decrypted file in it.
C9_DryRunFrame ==
    opts.DryRun =>
        /\ safety = <<>> /\ result.SafetyBackup = <<>>
        /\ \A loc \in DOMAIN fs0 : loc \in DOMAIN fs /\ fs[loc] = fs0[loc]
        /\ DOMAIN fs \ DOMAIN fs0 \subseteq TempLocs
        /\ ~NeedsDecrypt(input.archivePath) => fs = fs0
        /\ (pc \in {"extract", "return"} /\ tarPath = <<>>) => fs = fs0
        /\ Handled => outcome \in {"unsafe", "filtered", "escapes", "dry"}
        /\ pc \in {"extract", "return", "done"} =>
               count = CountPassing(SubSeq(archive, 1, pos))
        /\ err = ""

C9_Witness ==
    /\ opts.DryRun /\ ~opts.NoBackup /\ pc = "done" /\ result.Success
    /\ NeedsDecrypt(input.archivePath)
    /\ fs0 = HomeWithKey
    /\ archive = <<zshrcEntry, escapingEntry>> /\ count = 1
    /\ fs[HomeLoc(<<".", "z", "s", "h", "r", "c">>)] = FileNode(OldBytes, Perm0755)

----------------------------------------------------------------------------
(* SpecPath: isSafePath applied to every short string over PathAlphabet    *)
(* and to the paths of TestIsSafePath.                                     *)

PathAlphabet == {".", "/", "~", "a", "NUL"}

zshrc == <<".", "z", "s", "h", "r", "c">>
nvimInitLua == <<".", "c", "o", "n", "f", "i", "g", "/", "n", "v", "i", "m", "/",
                 "i", "n", "i", "t", ".", "l", "u", "a">>
fileNameExt == <<"f", "i", "l", "e", ".", "n", "a", "m", "e", ".", "e", "x", "t">>
threeDots == <<".", ".", ".">>
fooBarUpBaz == <<"f", "o", "o", "/", "b", "a", "r", "/", ".", ".", "/", "b", "a", "z">>

PlainRelativePaths == {zshrc, nvimInitLua, fileNameExt}

PathInputs ==
    StringsUpTo(PathAlphabet, MaxPathLen) \cup PlainRelativePaths \cup {threeDots, fooBarUpBaz}

PathInit ==
    /\ path \in PathInputs
    /\ safe = FALSE

CheckPath ==
    /\ pc = "start"
    /\ safe' = isSafePath(path)
    /\ pc' = "done"
    /\ UNCHANGED <<writeVars, pipeVars, path, exclVars, fsVars, extractVars, runVars, backupVars>>

InitPath == pc = "start" /\ PathInit /\ PipeIdle /\ WriteIdle /\ ExclIdle /\ RestoreIdle /\ BackupIdle
NextPath == CheckPath
SpecPath == InitPath /\ [][NextPath]_vars

\* p has a component ".." when cut at "/" : the two dots are bounded on each
\* side by a "/" or by an end of the string
HasDotDotComponent(p) ==
    \E i \in 1..(Len(p) - 1) :
        /\ p[i] = "." /\ p[i + 1] = "."
        /\ (i = 1 \/ p[i - 1] = "/")
        /\ (i + 1 = Len(p) \/ p[i + 2] = "/")

\* C1: isSafePath returns false for every path that contains a NUL byte, is
\* absolute or starts with "/" or "~", has a ".." component, or whose
\* cleaned form starts with ".." (so "..." too); it returns true for the
\* empty string, for "." and for the plain relative paths of the tests.
C1_SafePathContract ==
    pc = "done" =>
        /\ ( \/ ContainsRune(path, "NUL")
             \/ HasPrefix(path, <<"/">>)
             \/ HasPrefix(path, <<"~">>)
             \/ HasDotDotComponent(path)
             \/ HasPrefix(Clean(path), DotDot) ) => safe = FALSE
        /\ path = threeDots => safe = FALSE
        /\ path \in {<<>>, Dot} \cup PlainRelativePaths => safe = TRUE

\* a rejected path with three dots and an accepted "." have both been checked
C1_Witness ==
    /\ pc = "done"
    /\ safe = FALSE
    /\ path = threeDots

----------------------------------------------------------------------------
(* Exclusion Matcher *)

\* scanChunk of filepath.Match: the leading stars are dropped (star), the
\* chunk runs to the next star.  Patterns here hold no "[" and no "\\".
RECURSIVE DropStars(_)
DropStars(pattern) ==
    IF pattern # <<>> /\ pattern[1] = "*" THEN DropStars(Tail(pattern)) ELSE pattern

scanChunk(pattern) ==
    LET rest == DropStars(pattern)
        i == IndexFrom(rest, "*", 1)
    IN [star |-> pattern # <<>> /\ pattern[1] = "*",
        chunk |-> IF i = 0 THEN rest ELSE SubSeq(rest, 1, i - 1),
        rest |-> IF i = 0 THEN <<>> ELSE SubSeq(rest, i, Len(rest))]

\* matchChunk of filepath.Match: the chunk must match a prefix of s; "?"
\* matches one character that is no separator
RECURSIVE matchChunk(_, _)
matchChunk(chunk, s) ==
    IF chunk = <<>> THEN [ok |-> TRUE, rest |-> s]
    ELSE IF s = <<>> THEN [ok |-> FALSE, rest |-> <<>>]
    ELSE IF chunk[1] = "?"
    THEN IF s[1] = Separator THEN [ok |-> FALSE, rest |-> <<>>]
         ELSE matchChunk(Tail(chunk), Tail(s))
    ELSE IF chunk[1] # s[1] THEN [ok |-> FALSE, rest |-> <<>>]
    ELSE matchChunk(Tail(chunk), Tail(s))

\* filepath.Match: chunk by chunk, a chunk after a star is looked for at the
\* leftmost place the star can reach (a star does not cross a separator)
RECURSIVE Match(_, _)
RECURSIVE MatchSkip(_, _, _, _)
MatchSkip(chunk, rest, name, i) ==
    IF ~(i < Len(name) /\ name[i + 1] # Separator) THEN FALSE
    ELSE LET m == matchChunk(chunk, SubSeq(name, i + 2, Len(name))) IN
         IF m.ok
         THEN IF rest = <<>> /\ m.rest # <<>>
              THEN MatchSkip(chunk, rest, name, i + 1)
              ELSE Match(rest, m.rest)
         ELSE MatchSkip(chunk, rest, name, i + 1)

Match(pattern, name) ==
    IF pattern = <<>> THEN name = <<>>
    ELSE LET sc == scanChunk(pattern) IN
         IF sc.star /\ sc.chunk = <<>>
         THEN ~Contains(name, <<Separator>>)
         ELSE LET m == matchChunk(sc.chunk, name) IN
              IF m.ok /\ (m.rest = <<>> \/ sc.rest # <<>>)
              THEN Match(sc.rest, m.rest)
              ELSE IF sc.star THEN MatchSkip(sc.chunk, sc.rest, name, 0)
              ELSE FALSE

\* the loop body without the test of the pattern as an interior component
excludedBy_NoInterior(pattern, p) ==
    LET name == Base(p) IN
    \/ Match(pattern, name)
    \/ Match(pattern, p)
    \/ name = pattern
    \/ HasPrefix(p, pattern \o <<"/">>) \/ HasSuffix(p, <<"/">> \o pattern)

\* the body of the loop of isExcluded for one pattern
excludedBy(pattern, p) ==
    LET name == Base(p) IN
    \/ Match(pattern, name)
    \/ Match(pattern, p)
    \/ name = pattern
    \/ HasPrefix(p, pattern \o <<"/">>) \/ HasSuffix(p, <<"/">> \o pattern)
    \/ Contains(p, <<"/">> \o pattern \o <<"/">>)

\* isExcluded: the patterns in order, true at the first one that matches
RECURSIVE isExcludedFrom(_, _, _)
isExcludedFrom(pats, p, i) ==
    IF i > Len(pats) THEN FALSE
    ELSE IF excludedBy(pats[i], p) THEN TRUE
    ELSE isExcludedFrom(pats, p, i + 1)

isExcluded(pats, p) == isExcludedFrom(pats, p, 1)

----------------------------------------------------------------------------
(* SpecExcl: isExcluded applied to short paths and short pattern lists, and *)
(* to the ".git" cases of TestIsExcluded.                                  *)

PatAlphabet == {"a", "/", "*", "?"}
ExPathAlphabet == {"a", "b", "/"}

dotGit == <<".", "g", "i", "t">>
dotGitObjectsAbc == dotGit \o <<"/", "o", "b", "j", "e", "c", "t", "s", "/", "a", "b", "c">>
projectDotGitX == <<"p", "r", "o", "j", "e", "c", "t", "/">> \o dotGit \o <<"/", "x">>
dotGitconfig == dotGit \o <<"c", "o", "n", "f", "i", "g">>
dotGitignore == dotGit \o <<"i", "g", "n", "o", "r", "e">>
starLog == <<"*", ".", "l", "o", "g">>
logsDebugLog == <<"l", "o", "g", "s", "/", "d", "e", "b", "u", "g", ".", "l", "o", "g">>

PatternPool == StringsUpTo(PatAlphabet, MaxPatLen)
\* the patterns a second entry of the list is drawn from
OtherPatterns == {<<"b">>, <<"*">>, <<"a", "/">>}

\* lists of no pattern, one pattern, or one pattern before or after another
PatternLists ==
    {<<>>} \cup {<<q>> : q \in PatternPool}
    \cup {<<q, o>> : q \in PatternPool, o \in OtherPatterns}
    \cup {<<o, q>> : q \in PatternPool, o \in OtherPatterns}

GitPaths == {dotGit, dotGitObjectsAbc, projectDotGitX, dotGitconfig, dotGitignore}

ExclInit ==
    /\ excluded = FALSE
    /\ \/ /\ patterns \in PatternLists
          /\ exPath \in StringsUpTo(ExPathAlphabet, MaxExPathLen)
       \/ /\ patterns \in {<<>>, <<dotGit>>, <<starLog, dotGit>>}
          /\ exPath \in GitPaths \cup {logsDebugLog}

CheckExcluded ==
    /\ pc = "start"
    /\ excluded' = isExcluded(patterns, exPath)
    /\ pc' = "done"
    /\ UNCHANGED <<writeVars, pipeVars, patterns, exPath, pathVars, fsVars, extractVars, runVars, backupVars>>

InitExcl == pc = "start" /\ ExclInit /\ PipeIdle /\ WriteIdle /\ PathIdle /\ RestoreIdle /\ BackupIdle
NextExcl == CheckExcluded
SpecExcl == InitExcl /\ [][NextExcl]_vars

\* glob matching stated by its meaning: "*" stands for any run of characters
\* without a separator, "?" for one character that is no separator
RECURSIVE Glob(_, _)
Glob(pattern, s) ==
    IF pattern = <<>> THEN s = <<>>
    ELSE IF pattern[1] = "*"
    THEN \E k \in 0..Len(s) :
            /\ \A j \in 1..k : s[j] # "/"
            /\ Glob(Tail(pattern), SubSeq(s, k + 1, Len(s)))
    ELSE /\ s # <<>>
         /\ IF pattern[1] = "?" THEN s[1] # "/" ELSE s[1] = pattern[1]
         /\ Glob(Tail(pattern), Tail(s))

\* one pattern excludes p by one of the six rules of the matcher
SomeRule(pattern, p) ==
    \/ Glob(pattern, Base(p))
    \/ Glob(pattern, p)
    \/ pattern = Base(p)
    \/ HasPrefix(p, pattern \o <<"/">>)
    \/ HasSuffix(p, <<"/">> \o pattern)
    \/ \E i \in 1..Len(p) : HasPrefix(SubSeq(p, i, Len(p)), <<"/">> \o pattern \o <<"/">>)

\* C10: isExcluded(path) is true exactly when some configured pattern
\* glob-matches the base name or the whole path, equals the base name, or
\* is a leading, trailing or interior component run of the path; so ".git"
\* excludes ".git", ".git/objects/abc" and "project/.git/x" but neither
\* ".gitconfig" nor ".gitignore", no pattern excludes nothing, and a path
\* excluded by a part of the list is excluded by the whole list.
C10_ExcludedIffSomeRule ==
    pc = "done" =>
        /\ excluded = (\E i \in 1..Len(patterns) : SomeRule(patterns[i], exPath))
        /\ patterns = <<>> => ~excluded
        /\ (patterns = <<dotGit>> /\ exPath \in {dotGit, dotGitObjectsAbc, projectDotGitX})
              => excluded
        /\ (patterns = <<dotGit>> /\ exPath \in {dotGitconfig, dotGitignore})
              => ~excluded
        /\ \A i \in 1..Len(patterns) : isExcluded(<<patterns[i]>>, exPath) => excluded

\* ".git" as an interior component has excluded "project/.git/x"
C10_Witness ==
    /\ pc = "done"
    /\ patterns = <<dotGit>>
    /\ exPath = projectDotGitX
    /\ excluded

----------------------------------------------------------------------------
(* File Collector *)

\* the characters of file names in byte order, for the sorted listing of a
\* directory
ByteOrder ==
    <<" ", "-", ".", "/", "0", "1", "2", "3", "4", "5", "6", "7", "8", "9", "A", "B", "C", "D", "E", "F", "G", "H", "I", "J">>
    \o <<"K", "L", "M", "N", "O", "P", "Q", "R", "S", "T", "U", "V", "W", "X", "Y", "Z", "_", "a", "b", "c", "d", "e", "f", "g">>
    \o <<"h", "i", "j", "k", "l", "m", "n", "o", "p", "q", "r", "s", "t", "u", "v", "w", "x", "y", "z", "~">>

Rank(c) == CHOOSE i \in 1..Len(ByteOrder) : ByteOrder[i] = c

\* a < b as strings
RECURSIVE Less(_, _)
Less(a, b) ==
    IF b = <<>> THEN FALSE
    ELSE IF a = <<>> THEN TRUE
    ELSE IF Head(a) = Head(b) THEN Less(Tail(a), Tail(b))
    ELSE Rank(Head(a)) < Rank(Head(b))

\* the least string of a set
Least(names) == CHOOSE n \in names : \A m \in names \ {n} : Less(n, m)

RECURSIVE Sorted(_)
SortedFrom(least, names) == <<least>> \o Sorted(names \ {least})

\* the strings of a set in ascending order
Sorted(names) == IF names = {} THEN <<>> ELSE SortedFrom(Least(names), names)

\* os.ReadDir: the names in the directory at loc, sorted
ReadDir(f, loc) ==
    Sorted({l[Len(l)] : l \in {k \in DOMAIN f : Len(k) = Len(loc) + 1 /\ Parent(k) = loc}})

\* the number of leading elements two sequences share
RECURSIVE CommonPrefixLen(_, _)
CommonPrefixLen(a, b) ==
    IF a = <<>> \/ b = <<>> \/ Head(a) # Head(b) THEN 0
    ELSE 1 + CommonPrefixLen(Tail(a), Tail(b))

\* the elements of a cleaned absolute path
Elems(p) == SelectSeq(Tail(Split(Clean(p), "/")), LAMBDA c : c # <<>>)

JoinOrDot(elems) == IF elems = <<>> THEN Dot ELSE JoinSlash(elems)

RelFrom(b, t, k) ==
    JoinOrDot([i \in 1..(Len(b) - k) |-> DotDot] \o SubSeq(t, k + 1, Len(t)))

RelOf(b, t) == RelFrom(b, t, CommonPrefixLen(b, t))

\* filepath.Rel for two absolute paths
Rel(basepath, targpath) == RelOf(Elems(basepath), Elems(targpath))

FileInfo(fullPath, relPath, size) ==
    [FullPath |-> fullPath, RelPath |-> relPath, Size |-> size, Sensitive |-> FALSE]

Walked(fileInfos, excludedCount) ==
    [files |-> fileInfos, excluded |-> excludedCount, skipped |-> 0]

\* the callback called with the error of a directory that cannot be read
Unwalked == [files |-> <<>>, excluded |-> 0, skipped |-> 1]

addWalked(first, rest) ==
    [files |-> first.files \o rest.files, excluded |-> first.excluded + rest.excluded,
     skipped |-> first.skipped + rest.skipped]

\* the callback of filepath.WalkDir in collectItem on the node at loc, and
\* the walk below it: a symbolic link is an entry and is not followed, an
\* excluded directory is not entered, the names of a directory in sorted order
RECURSIVE walkDir(_, _, _, _)
RECURSIVE walkEntries(_, _, _, _, _)
\* the walk with the directory a symbolic link points at entered
walkLinked(f, st, walkPath, pats, rel, node) ==
    IF st.err = "" /\ f[st.loc].kind = "dir"
    THEN walkEntries(f, st.loc, walkPath, pats, ReadDir(f, st.loc))
    ELSE Walked(<<FileInfo(walkPath, rel, Len(node.target))>>, 0)

\* the callback with symbolic links to directories followed
walkNode_FollowsLinks(f, loc, walkPath, pats, rel, node) ==
    IF isExcluded(pats, rel) THEN Walked(<<>>, 1)
    ELSE IF node.kind = "link" THEN walkLinked(f, Stat(f, walkPath), walkPath, pats, rel, node)
    ELSE IF node.kind = "dir"
    THEN IF "ur" \in node.mode THEN walkEntries(f, loc, walkPath, pats, ReadDir(f, loc))
         ELSE Unwalked
    ELSE Walked(<<FileInfo(walkPath, rel, Len(node.data))>>, 0)

\* the callback without SkipDir: an excluded directory is counted and entered
walkNode_EntersExcluded(f, loc, walkPath, pats, rel, node) ==
    IF node.kind = "dir" /\ "ur" \in node.mode
    THEN addWalked(Walked(<<>>, IF isExcluded(pats, rel) THEN 1 ELSE 0),
                   walkEntries(f, loc, walkPath, pats, ReadDir(f, loc)))
    ELSE IF isExcluded(pats, rel) THEN Walked(<<>>, 1)
    ELSE IF node.kind = "link" THEN Walked(<<FileInfo(walkPath, rel, Len(node.target))>>, 0)
    ELSE IF node.kind = "dir" THEN Unwalked
    ELSE Walked(<<FileInfo(walkPath, rel, Len(node.data))>>, 0)

walkNode(f, loc, walkPath, pats, rel, node) ==
    IF isExcluded(pats, rel) THEN Walked(<<>>, 1)
    ELSE IF node.kind = "link" THEN Walked(<<FileInfo(walkPath, rel, Len(node.target))>>, 0)
    ELSE IF node.kind = "dir"
    THEN IF "ur" \in node.mode THEN walkEntries(f, loc, walkPath, pats, ReadDir(f, loc))
         ELSE Unwalked
    ELSE Walked(<<FileInfo(walkPath, rel, Len(node.data))>>, 0)

walkDir(f, loc, walkPath, pats) ==
    walkNode(f, loc, walkPath, pats, Rel(HomeDir, walkPath), f[loc])

walkEntries(f, loc, walkPath, pats, names) ==
    IF names = <<>> THEN Walked(<<>>, 0)
    ELSE addWalked(walkDir(f, Append(loc, Head(names)),
                           walkPath \o <<"/">> \o Head(names), pats),
                   walkEntries(f, loc, walkPath, pats, Tail(names)))

Collected(e, fileInfos, excludedCount) ==
    [err |-> e, files |-> fileInfos, excluded |-> excludedCount, skipped |-> 0]

NodeSize(node) == IF node.kind = "link" THEN Len(node.target) ELSE Len(node.data)

collectWalked(w) == [Collected("", w.files, w.excluded) EXCEPT !.skipped = w.skipped]

collectAt(f, info, fullPath, relPath, pats) ==
    IF info.err # "" THEN Collected(info.err, <<>>, 0)
    ELSE IF f[info.loc].kind = "dir"
    THEN collectWalked(walkDir(f, info.loc, fullPath, pats))
    ELSE IF isExcluded(pats, relPath) THEN Collected("", <<>>, 1)
    ELSE Collected("", <<FileInfo(fullPath, relPath, NodeSize(f[info.loc]))>>, 0)

\* collectItem
collectItem(f, relPath, pats) ==
    collectAt(f, Lstat(f, Join(HomeDir, relPath)), Join(HomeDir, relPath), relPath, pats)

ZeroStats ==
    [FilesBackedUp |-> 0, TotalSize |-> 0, FilesSkipped |-> 0, FilesExcluded |-> 0,
     SensitiveFiles |-> 0]

RECURSIVE SumSizes(_)
SumSizes(fileInfos) ==
    IF fileInfos = <<>> THEN 0 ELSE Head(fileInfos).Size + SumSizes(Tail(fileInfos))

MarkSensitive(fileInfos) ==
    [i \in 1..Len(fileInfos) |-> [fileInfos[i] EXCEPT !.Sensitive = TRUE]]

\* an item collected in the first loop of collectFiles: an error skips it
addRegular(acc, c) ==
    IF c.err # ""
    THEN [acc EXCEPT !.stats.FilesSkipped = @ + 1]
    ELSE [acc EXCEPT !.files = @ \o c.files,
                     !.totalSize = @ + SumSizes(c.files),
                     !.stats.FilesExcluded = @ + c.excluded,
                     !.stats.FilesSkipped = @ + c.skipped]

\* the first loop of collectFiles, over the items
RECURSIVE collectRegular(_, _, _, _)
collectRegular(f, items, pats, acc) ==
    IF items = <<>> THEN acc
    ELSE collectRegular(f, Tail(items), pats,
                        addRegular(acc, collectItem(f, Head(items), pats)))

\* the second loop with the sizes of the sensitive files left out of the
\* total
addSensitive_SizesLeftOut(acc, c) ==
    IF c.err # "" THEN acc
    ELSE [acc EXCEPT !.files = @ \o MarkSensitive(c.files),
                     !.stats.FilesExcluded = @ + c.excluded,
                     !.stats.FilesSkipped = @ + c.skipped,
                     !.stats.SensitiveFiles = @ + Len(c.files)]

\* an item collected in the second loop of collectFiles: an error is passed
\* over, the files are marked sensitive
addSensitive(acc, c) ==
    IF c.err # "" THEN acc
    ELSE [acc EXCEPT !.files = @ \o MarkSensitive(c.files),
                     !.totalSize = @ + SumSizes(c.files),
                     !.stats.FilesExcluded = @ + c.excluded,
                     !.stats.FilesSkipped = @ + c.skipped,
                     !.stats.SensitiveFiles = @ + Len(c.files)]

\* the second loop of collectFiles, over the sensitive items
RECURSIVE collectSensitive(_, _, _, _)
collectSensitive(f, items, pats, acc) ==
    IF items = <<>> THEN acc
    ELSE collectSensitive(f, Tail(items), pats,
                          addSensitive(acc, collectItem(f, Head(items), pats)))

\* the totals collectFiles sets at its end
withTotals(all) ==
    [all EXCEPT !.stats.FilesBackedUp = Len(all.files),
                !.stats.TotalSize = all.totalSize]

NothingCollected == [files |-> <<>>, totalSize |-> 0, stats |-> ZeroStats]

\* collectFiles with the sensitive items collected whatever includeSecrets is
collectFiles_OptionOnly(f, c, o, includeSecrets) ==
    withTotals(IF o.IncludeSecrets
               THEN collectSensitive(f, c.Sensitive, c.Patterns,
                                     collectRegular(f, c.Items, c.Patterns, NothingCollected))
               ELSE collectRegular(f, c.Items, c.Patterns, NothingCollected))

\* collectFiles
collectFiles(f, c, o, includeSecrets) ==
    withTotals(IF includeSecrets /\ o.IncludeSecrets
               THEN collectSensitive(f, c.Sensitive, c.Patterns,
                                     collectRegular(f, c.Items, c.Patterns, NothingCollected))
               ELSE collectRegular(f, c.Items, c.Patterns, NothingCollected))

----------------------------------------------------------------------------
(* Backup.Run *)

Resolved3(method, recipientsFile, gpgRecipient, e) ==
    [method |-> method, recipientsFile |-> recipientsFile, gpgRecipient |-> gpgRecipient,
     err |-> e]

\* resolveEncryption
resolveEncryption(f, c, o) ==
    LET method == IF o.EncryptionMethod = "" THEN c.Encryption ELSE o.EncryptionMethod
        recipientsFile == IF o.RecipientsFile = <<>> THEN c.AgeRecipients ELSE o.RecipientsFile
        gpgRecipient == IF o.GPGRecipient = <<>> THEN c.GPGRecipient ELSE o.GPGRecipient
    IN IF method = "none" \/ method = "" THEN Resolved3("", <<>>, <<>>, "")
       ELSE IF method = "age"
       THEN IF recipientsFile = <<>>
            THEN Resolved3("", <<>>, <<>>, "age encryption requested but no recipients file specified")
            ELSE IF Stat(f, recipientsFile).err # ""
            THEN Resolved3("", <<>>, <<>>, "age recipients file not found")
            ELSE Resolved3("age", recipientsFile, <<>>, "")
       ELSE IF method = "gpg"
       THEN IF gpgRecipient = <<>>
            THEN Resolved3("", <<>>, <<>>, "gpg encryption requested but no recipient specified")
            ELSE Resolved3("gpg", <<>>, gpgRecipient, "")
       ELSE Resolved3("", <<>>, <<>>, "unknown encryption method")

\* the method as the characters of a file name
MethodChars(method) ==
    IF method = "age" THEN <<"a", "g", "e">>
    ELSE IF method = "gpg" THEN <<"g", "p", "g">>
    ELSE <<>>

\* writeArchive: the entries AddFileToTar writes for the descriptors in
\* order; a file that cannot be added is passed over
RECURSIVE writeArchive(_, _)
writeArchive(f, fileInfos) ==
    IF fileInfos = <<>> THEN <<>>
    ELSE AddFileToTar(f, Head(fileInfos).FullPath, Head(fileInfos).RelPath).entries
         \o writeArchive(f, Tail(fileInfos))

\* strings.TrimSuffix
TrimSuffix(s, suffix) ==
    IF HasSuffix(s, suffix) THEN SubSeq(s, 1, Len(s) - Len(suffix)) ELSE s

\* metadata.GetMetadataPath
GetMetadataPath(archivePath) ==
    LET age == <<".", "a", "g", "e">>
        gpg == <<".", "g", "p", "g">>
        targz == <<".", "t", "a", "r", ".", "g", "z">>
        tar == <<".", "t", "a", "r">>
        base == IF HasSuffix(archivePath, age) THEN TrimSuffix(archivePath, age)
                ELSE TrimSuffix(archivePath, gpg)
        stem == IF HasSuffix(base, targz) THEN TrimSuffix(base, targz)
                ELSE TrimSuffix(base, tar)
    IN stem \o <<".", "j", "s", "o", "n">>

JsonBytes == <<"json">>

WriteTo(out, data) ==
    IF out.err # "" THEN Done(out.fs, out.err)
    ELSE Done([out.fs EXCEPT ![out.loc].data = data], "")

\* os.WriteFile
WriteFile(f, p, data, perm) == WriteTo(OpenFileTrunc(f, p, perm), data)

dotfilesPrefix == <<"d", "o", "t", "f", "i", "l", "e", "s", "-">>

\* the timestamp cleanupOldBackups reads from a file name of the backup
\* directory
TimestampOf(name) ==
    LET rest == TrimPrefix(name, dotfilesPrefix)
        dot == IndexFrom(rest, ".", 1)
    IN IF dot = 0 THEN rest ELSE SubSeq(rest, 1, dot - 1)

RECURSIVE RemoveAll(_, _)
RemoveAll(f, paths) ==
    IF paths = <<>> THEN f ELSE RemoveAll(Remove(f, Head(paths)).fs, Tail(paths))

\* the paths of the backups whose timestamp is among the old ones
doomedPaths(c, backups, old) ==
    [i \in 1..Len(SelectSeq(backups, LAMBDA n : TimestampOf(n) \in old)) |->
        Join(c.BackupDir, SelectSeq(backups, LAMBDA n : TimestampOf(n) \in old)[i])]

\* cleanupOldBackups with the newest groups removed
removeOldest_RemovesNewest(f, c, backups, timestamps, toRemove) ==
    IF toRemove <= 0 THEN f
    ELSE RemoveAll(f, doomedPaths(c, backups,
                                  {timestamps[Len(timestamps) + 1 - i] :
                                      i \in 1..Min(toRemove, Len(timestamps))}))

removeOldest(f, c, backups, timestamps, toRemove) ==
    IF toRemove <= 0 THEN f
    ELSE RemoveAll(f, doomedPaths(c, backups,
                                  {timestamps[i] : i \in 1..Min(toRemove, Len(timestamps))}))

cleanupBackups(f, c, backups, timestamps) ==
    removeOldest(f, c, backups, timestamps, Len(timestamps) - c.MaxBackups)

cleanupNames(f, c, backups) ==
    cleanupBackups(f, c, backups, Sorted({TimestampOf(backups[i]) : i \in 1..Len(backups)}))

cleanupIn(f, c, dir) ==
    IF dir.err # "" THEN f
    ELSE cleanupNames(f, c, SelectSeq(IF f[dir.loc].kind = "dir" THEN ReadDir(f, dir.loc)
                                      ELSE <<>>,
                                      LAMBDA n : HasPrefix(n, dotfilesPrefix)))

\* cleanupOldBackups: the files of the backup directory named dotfiles-* are
\* grouped by timestamp, and the groups of the oldest timestamps beyond
\* MaxBackups are removed
cleanupOldBackups(f, c) ==
    IF c.MaxBackups <= 0 THEN f ELSE cleanupIn(f, c, Stat(f, c.BackupDir))

\* the name of a backup archive, one fixed timestamp in it
archiveName == <<"d", "o", "t", "f", "i", "l", "e", "s", "-", "2", "0", "2", "6", "0", "1", "0", "1", "_", "0", "0", "0", "0", "0", "0", ".", "t", "a", "r", ".", "g", "z">>

NoBackupResult ==
    [Success |-> FALSE, Error |-> "", Archive |-> <<>>, Encrypted |-> FALSE,
     EncryptionMethod |-> "", Stats |-> ZeroStats]

\* Run after the backup directory is made: resolveEncryption
startWith(mk, r) ==
    /\ fs' = mk.fs
    /\ IF mk.err # ""
       THEN /\ bresult' = [bresult EXCEPT !.Error = "creating backup directory"]
            /\ enc' = enc
            /\ pc' = "backup done"
       ELSE IF r.err # ""
       THEN /\ bresult' = [bresult EXCEPT !.Error = r.err]
            /\ enc' = enc
            /\ pc' = "backup done"
       ELSE /\ bresult' = bresult
            /\ enc' = r
            /\ pc' = "collect"

startIn(mk) == startWith(mk, resolveEncryption(mk.fs, cfg, bopts))

\* Run up to collectFiles: the backup directory and resolveEncryption
BackupStart ==
    /\ pc = "backup"
    /\ startIn(MkdirAll(fs, cfg.BackupDir, Perm0700))
    /\ UNCHANGED <<writeVars, pipeVars, pathVars, exclVars, fs0, umask, extractVars, runVars, bopts, collected,
                   stats, produced>>

\* what Run does with the files collected
takeCollected(c) ==
    /\ collected' = c.files
    /\ stats' = c.stats
    /\ IF Len(c.files) = 0
       THEN /\ bresult' = [bresult EXCEPT !.Error = "no files to backup"]
            /\ pc' = "backup done"
       ELSE IF bopts.Estimate
       THEN /\ bresult' = [bresult EXCEPT !.Success = TRUE, !.Stats = c.stats]
            /\ pc' = "backup done"
       ELSE IF bopts.DryRun
       THEN /\ bresult' = [bresult EXCEPT !.Success = TRUE, !.Stats = c.stats,
                                          !.Encrypted = enc.method # "",
                                          !.EncryptionMethod = enc.method]
            /\ pc' = "backup done"
       ELSE /\ bresult' = bresult
            /\ pc' = "write"

\* Run from collectFiles to the archive: nothing collected is an error, an
\* estimate and a dry run end here
BackupCollect ==
    /\ pc = "collect"
    /\ takeCollected(collectFiles(fs, cfg, bopts, enc.method # ""))
    /\ UNCHANGED <<writeVars, pipeVars, pathVars, exclVars, fsVars, extractVars, runVars, bopts, enc, produced>>

\* Run after the archive is written: the metadata file next to it, the
\* package lists (no package manager is installed and there is no ~/go/bin:
\* nothing is written), cleanupOldBackups, the result
finishBackup(f, finalArchive) ==
    cleanupOldBackups(WriteFile(f, GetMetadataPath(finalArchive), JsonBytes, Perm0600).fs, cfg)

Produced(archivePath, method, entries) ==
    [path |-> archivePath, method |-> method, entries |-> entries]

\* what the encryptor leaves behind when it fails: nothing, or the output
\* file it had begun to write
FailedOutput(cipher, partial) == IF partial /\ cipher.err = "" THEN cipher.fs ELSE fs

\* Run with the output of a failed encryption left in place
writeEncrypted_KeepsOutput(cipher, encryptedPath, entries, ok, partial) ==
    IF ok /\ cipher.err = ""
    THEN /\ fs' = finishBackup([cipher.fs EXCEPT ![cipher.loc].data = CipherBytes],
                               encryptedPath)
         /\ produced' = Append(produced, Produced(encryptedPath, MethodChars(enc.method),
                                                  entries))
         /\ bresult' = [bresult EXCEPT !.Success = TRUE, !.Archive = encryptedPath,
                                       !.Encrypted = TRUE,
                                       !.EncryptionMethod = enc.method,
                                       !.Stats = stats]
    ELSE /\ fs' = FailedOutput(cipher, partial)
         /\ produced' = produced
         /\ bresult' = [bresult EXCEPT !.Error = "creating encrypted archive"]

\* createEncryptedArchive and what follows it: a failure removes the output
\* and ends Run with an error
writeEncrypted(cipher, encryptedPath, entries, ok, partial) ==
    IF ok /\ cipher.err = ""
    THEN /\ fs' = finishBackup([cipher.fs EXCEPT ![cipher.loc].data = CipherBytes],
                               encryptedPath)
         /\ produced' = Append(produced, Produced(encryptedPath, MethodChars(enc.method),
                                                  entries))
         /\ bresult' = [bresult EXCEPT !.Success = TRUE, !.Archive = encryptedPath,
                                       !.Encrypted = TRUE,
                                       !.EncryptionMethod = enc.method,
                                       !.Stats = stats]
    ELSE /\ fs' = Remove(FailedOutput(cipher, partial), encryptedPath).fs
         /\ produced' = produced
         /\ bresult' = [bresult EXCEPT !.Error = "creating encrypted archive"]

\* createArchive and what follows it
writePlain(plain, archivePath, entries) ==
    IF plain.err # ""
    THEN /\ fs' = plain.fs
         /\ produced' = produced
         /\ bresult' = [bresult EXCEPT !.Error = "creating archive"]
    ELSE /\ fs' = finishBackup([plain.fs EXCEPT ![plain.loc].data = GzipBytes], archivePath)
         /\ produced' = Append(produced, Produced(archivePath, <<>>, entries))
         /\ bresult' = [bresult EXCEPT !.Success = TRUE, !.Archive = archivePath,
                                       !.Stats = stats]

writeTo(archivePath, encryptedPath, entries, encOk, partial) ==
    IF enc.method # ""
    THEN writeEncrypted(OpenFileTrunc(fs, encryptedPath, Perm0600), encryptedPath, entries,
                        encOk /\ ToolInstalled(cfg, MethodChars(enc.method)), partial)
    ELSE writePlain(OpenFileTrunc(fs, archivePath, Perm0600), archivePath, entries)

\* Run from the archive on: the encrypted archive through the encryptor
\* (encOk: EncryptReader succeeds; partial: when it fails it has created its
\* output file) or the plain archive, then the rest
BackupWrite ==
    /\ pc = "write"
    /\ \E encOk \in BOOLEAN, partial \in BOOLEAN :
        writeTo(Join(cfg.BackupDir, archiveName),
                Join(cfg.BackupDir, archiveName) \o <<".">> \o MethodChars(enc.method),
                writeArchive(fs, collected), encOk, partial)
    /\ pc' = "backup done"
    /\ UNCHANGED <<writeVars, pipeVars, pathVars, exclVars, fs0, umask, extractVars, runVars, bopts, enc,
                   collected, stats>>

----------------------------------------------------------------------------
(* SpecBackup: Backup.Run over configurations, options and one home *)

BackupConfig(items, sensitive, pats, encryption, age, gpg, hasAge, hasGPG) ==
    [BackupDir |-> <<"/", "h", "/", "b">>, MaxBackups |-> 14, Encryption |-> encryption,
     AgeRecipients |-> age, GPGRecipient |-> gpg, Items |-> items, Sensitive |-> sensitive,
     Patterns |-> pats, HasAge |-> hasAge, HasGPG |-> hasGPG]

BackupOptions(method, includeSecrets, dryRun, estimate) ==
    [DryRun |-> dryRun, EncryptionMethod |-> method, IncludeSecrets |-> includeSecrets,
     RecipientsFile |-> <<>>, GPGRecipient |-> <<>>, Estimate |-> estimate]

zshrcName == <<".", "z", "s", "h", "r", "c">>
configName == <<".", "c", "o", "n", "f", "i", "g">>
sshName == <<".", "s", "s", "h">>
pypircName == <<".", "p", "y", "p", "i", "r", "c">>
missingName == <<"m", "i", "s", "s", "i", "n", "g">>

\* a home with a .zshrc of the given mode, a .config directory holding a
\* file, a symbolic link and a .git directory, the sensitive .ssh directory
\* and .pypirc file, and the age recipients file
BackupHome(zshrcMode) ==
    (Root :> DirNode(Perm0755)) @@ (<<homeName>> :> DirNode(Perm0755))
    @@ (<<outsideName>> :> DirNode(Perm0755))
    @@ (<<homeName, zshrcName>> :> FileNode(Bytes1, zshrcMode))
    @@ (<<homeName, configName>> :> DirNode(Perm0755))
    @@ (<<homeName, configName, <<"a">>>> :> FileNode(Bytes12, Perm0600))
    @@ (<<homeName, configName, <<"l">>>> :> LinkNode(<<"a">>))
    @@ (<<homeName, configName, dotGit>> :> DirNode(Perm0755))
    @@ (<<homeName, configName, dotGit, <<"x">>>> :> FileNode(Bytes3, Perm0600))
    @@ (<<homeName, sshName>> :> DirNode(Perm0700))
    @@ (<<homeName, sshName, <<"k">>>> :> FileNode(Bytes12, Perm0600))
    @@ (<<homeName, pypircName>> :> FileNode(Bytes3, Perm0600))
    @@ (<<homeName, <<"r">>>> :> FileNode(OldBytes, Perm0600))

\* the .zshrc of the home directory named by way of the directory above
upZshrcName == <<".", ".", "/", "h", "/", ".", "z", "s", "h", "r", "c">>

ItemLists == {<<>>, <<zshrcName>>, <<zshrcName, configName>>, <<missingName, zshrcName>>,
              <<zshrcName, sshName>>, <<upZshrcName>>}
\* a file of the .config directory listed as sensitive
configSecretName == <<".", "c", "o", "n", "f", "i", "g", "/", "a">>
SensitiveLists == {<<>>, <<sshName, pypircName>>, <<configSecretName>>}

BackupStartState ==
    /\ pc = "backup"
    /\ fs0 = fs
    /\ enc = <<>> /\ collected = <<>> /\ stats = ZeroStats
    /\ bresult = NoBackupResult
    /\ produced = <<>>

InitBackup ==
    /\ PathIdle /\ ExclIdle /\ PipeIdle /\ WriteIdle /\ ExtractIdle /\ RunIdle2
    /\ fs \in {BackupHome(Perm0600), BackupHome({"uw"})}
    /\ umask = {}
    /\ \E items \in ItemLists, sensitive \in SensitiveLists, pats \in {<<>>, <<dotGit>>},
          encryption \in {"none", "age", "gpg"},
          age \in {<<>>, recipientsPath, <<"/", "h", "/", "n", "o", "n", "e">>},
          gpg \in {<<>>, <<"k">>}, hasAge \in BOOLEAN :
          cfg = BackupConfig(items, sensitive, pats, encryption, age, gpg, hasAge, TRUE)
    /\ \E method \in {"", "none", "age", "zip"}, includeSecrets \in BOOLEAN,
          mode \in {<<FALSE, FALSE>>, <<TRUE, FALSE>>, <<FALSE, TRUE>>} :
          bopts = BackupOptions(method, includeSecrets, mode[1], mode[2])
    /\ BackupStartState

NextBackup == BackupStart \/ BackupCollect \/ BackupWrite

SpecBackup == InitBackup /\ [][NextBackup]_vars

----------------------------------------------------------------------------
(* Properties of Backup.Run *)

\* the path is one of the sensitive list, or lies under one
UnderSensitive(p, sensitive) ==
    \E i \in 1..Len(sensitive) :
        p = sensitive[i] \/ HasPrefix(p, sensitive[i] \o <<"/">>)

PlainArchives == {i \in 1..Len(produced) : produced[i].method = <<>>}

\* the second pass of collectFiles does not run without encryption, and a
\* failure of the encrypted archive leaves no archive at all
SecondPassGated ==
    /\ (pc \in {"write", "backup done"} /\ enc # <<>> /\ enc.method = "") =>
          /\ \A i \in 1..Len(collected) : ~collected[i].Sensitive
          /\ stats.SensitiveFiles = 0
    /\ \A i \in PlainArchives : enc.method = ""
    /\ (pc = "backup done" /\ ~bresult.Success) =>
          /\ produced = <<>>
          /\ bresult.Archive = <<>>
          /\ Stat(fs, Join(cfg.BackupDir, archiveName)).err # ""

\* C6: sensitive items are never written to an unencrypted backup archive:
\* when the resolved encryption method is none, no descriptor is marked
\* sensitive, stats.SensitiveFiles stays 0 and no path of the sensitive list
\* is collected or written; and Run writes no unencrypted archive when
\* creating the encrypted one fails.
C6_SensitiveNeverUnencrypted ==
    /\ SecondPassGated
    /\ (pc \in {"write", "backup done"} /\ enc # <<>> /\ enc.method = "") =>
          \A i \in 1..Len(collected) : ~UnderSensitive(collected[i].RelPath, cfg.Sensitive)
    /\ \A i \in PlainArchives : \A j \in 1..Len(produced[i].entries) :
          ~UnderSensitive(produced[i].entries[j].name, cfg.Sensitive)

----------------------------------------------------------------------------
(* SpecRoundTrip: Backup.Run, a change of the home directory, then         *)
(* Restore.Run on the archive the backup produced                          *)

zshrcLoc == <<homeName, zshrcName>>

HomeChangeKinds ==
    {<<"none", {}>>, <<"removed", {}>>}
    \cup {<<"rewritten", m>> : m \in {Perm0600, Perm0755, {"ur"}}}

\* the home directory after the user's change to .zshrc
ChangedHome(f, change) ==
    IF change[1] = "removed" THEN [l \in DOMAIN f \ {zshrcLoc} |-> f[l]]
    ELSE IF change[1] = "rewritten" THEN [f EXCEPT ![zshrcLoc] = FileNode(OldBytes, change[2])]
    ELSE f

\* between the two runs the user removes or rewrites .zshrc, or leaves it
HomeChanges ==
    /\ pc = "backup done"
    /\ bresult.Success /\ bresult.Archive # <<>>
    /\ \E change \in HomeChangeKinds : fs' = ChangedHome(fs, change)
    /\ pc' = "between"
    /\ UNCHANGED <<writeVars, pipeVars, pathVars, exclVars, fs0, umask, extractVars, runVars, backupVars>>

\* restore.New on the archive of the backup, and the tar stream it holds
StartRestore ==
    /\ pc = "between"
    /\ opts' \in [DryRun : BOOLEAN, NoBackup : BOOLEAN, Categories : {<<>>, <<shell>>}]
    /\ archive' = produced[Len(produced)].entries
    /\ input' = [archivePath |-> bresult.Archive,
                 exists |-> Stat(fs, bresult.Archive).err = ""]
    /\ pos' = 0 /\ count' = 0 /\ totalExtracted' = 0 /\ err' = "" /\ outcome' = ""
    /\ result' = NoResult
    /\ tarPath' = <<>>
    /\ safety' = <<>>
    /\ warning' = ""
    /\ pc' = "start"
    /\ UNCHANGED <<writeVars, pipeVars, pathVars, exclVars, fsVars, cfg, backupVars>>

InitRoundTrip ==
    /\ PathIdle /\ ExclIdle /\ PipeIdle /\ WriteIdle /\ ExtractIdle /\ RunIdle2
    /\ fs \in {BackupHome(Perm0600), BackupHome(Perm0755)}
    /\ umask \in Umasks
    /\ \E items \in {<<zshrcName>>, <<zshrcName, configName>>}, encryption \in {"none", "age"} :
          cfg = BackupConfig(items, <<>>, <<>>, encryption, recipientsPath, <<>>, TRUE, TRUE)
    /\ bopts = BackupOptions("", FALSE, FALSE, FALSE)
    /\ BackupStartState

NextRoundTrip ==
    \/ BackupStart \/ BackupCollect \/ BackupWrite
    \/ HomeChanges \/ StartRestore
    \/ RunStart \/ DecryptArchive \/ SafetyBackup \/ ExtractEntry \/ ExtractEOF \/ RunFinish

SpecRoundTrip == InitRoundTrip /\ [][NextRoundTrip]_vars

\* the descriptor's file was a regular file when the backup ran
RegularAtBackup(info) ==
    /\ Lstat(fs0, info.FullPath).err = ""
    /\ fs0[Lstat(fs0, info.FullPath).loc].kind = "file"

\* the file is there with the content and the permission bits of backup time
RestoredAsBackedUp(info) ==
    /\ Lstat(fs, info.FullPath).err = ""
    /\ fs[Lstat(fs, info.FullPath).loc].kind = "file"
    /\ fs[Lstat(fs, info.FullPath).loc].data = fs0[Lstat(fs0, info.FullPath).loc].data
    /\ fs[Lstat(fs, info.FullPath).loc].mode \cap PermBits
          = fs0[Lstat(fs0, info.FullPath).loc].mode \cap PermBits

\* a restore of everything that reported success
RestoredAll ==
    /\ pc = "done" /\ result.Success
    /\ ~opts.DryRun /\ opts.Categories = <<>>

\* C7: after a backup and a successful restore of its archive, every
\* collected regular file is at its path with the content bytes and the
\* permission bits it had at backup time, whatever the home directory held
\* at restore time.
C7_RoundTripRestoresContentAndMode ==
    RestoredAll => \A i \in 1..Len(collected) :
                      RegularAtBackup(collected[i]) => RestoredAsBackedUp(collected[i])

\* the content alone: it comes back unless the target cannot be written
C7_ContentRestoredWhereWritable ==
    RestoredAll =>
        \A i \in 1..Len(collected) :
            (/\ RegularAtBackup(collected[i])
             /\ (Lstat(fs, collected[i].FullPath).err = ""
                 => "uw" \in fs[Lstat(fs, collected[i].FullPath).loc].mode
                    \/ fs[Lstat(fs, collected[i].FullPath).loc].data
                         = fs0[Lstat(fs0, collected[i].FullPath).loc].data))
            => /\ Lstat(fs, collected[i].FullPath).err = ""
               /\ fs[Lstat(fs, collected[i].FullPath).loc].data
                    = fs0[Lstat(fs0, collected[i].FullPath).loc].data


----------------------------------------------------------------------------
(* SpecCollect: Backup.Run on a home with symbolic links to a file and to  *)
(* directories, a directory that cannot be read, and item lists that name   *)
(* missing paths                                                            *)

lnkName == <<".", "l", "n", "k">>
lockedName == <<".", "l", "o", "c", "k", "e", "d">>
configLinkName == <<".", "c", "o", "n", "f", "i", "g", "/", "l">>

\* a home with .lnk, a symbolic link to the .ssh directory; a .config
\* directory holding a file, a link to it and a link to the directory /o
\* outside the home; a .locked directory without read permission; /o holds
\* a file that only the link leads to
CollectHome ==
    (Root :> DirNode(Perm0755)) @@ (<<homeName>> :> DirNode(Perm0755))
    @@ (<<outsideName>> :> DirNode(Perm0755))
    @@ (<<outsideName, <<"f">>>> :> FileNode(Bytes123, Perm0600))
    @@ (<<homeName, zshrcName>> :> FileNode(Bytes1, Perm0600))
    @@ (<<homeName, lnkName>> :> LinkNode(sshName))
    @@ (<<homeName, configName>> :> DirNode(Perm0755))
    @@ (<<homeName, configName, <<"a">>>> :> FileNode(Bytes12, Perm0600))
    @@ (<<homeName, configName, <<"d">>>> :> LinkNode(OutsideDir))
    @@ (<<homeName, configName, <<"l">>>> :> LinkNode(<<"a">>))
    @@ (<<homeName, lockedName>> :> DirNode({"uw", "ux"}))
    @@ (<<homeName, lockedName, <<"x">>>> :> FileNode(Bytes3, Perm0600))
    @@ (<<homeName, sshName>> :> DirNode(Perm0700))
    @@ (<<homeName, sshName, <<"k">>>> :> FileNode(Bytes12, Perm0600))
    @@ (<<homeName, <<"r">>>> :> FileNode(OldBytes, Perm0600))

CollectItemLists ==
    {<<configName>>, <<lnkName, configName>>, <<missingName, zshrcName>>,
     <<lockedName, zshrcName>>, <<zshrcName, missingName, lnkName>>}

CollectSensitiveLists ==
    {<<>>, <<missingName, sshName>>, <<configLinkName>>, <<lockedName, sshName>>}

\* "*g" matches the name .config and no path below that directory
starG == <<"*", "g">>

CollectPatternLists == {<<>>, <<<<"l">>>>, <<lnkName>>, <<starG>>, <<<<"a">>>>}

InitCollect ==
    /\ PathIdle /\ ExclIdle /\ PipeIdle /\ WriteIdle /\ ExtractIdle /\ RunIdle2
    /\ fs = CollectHome
    /\ umask = {}
    /\ \E items \in CollectItemLists, sensitive \in CollectSensitiveLists,
          pats \in CollectPatternLists, encryption \in {"none", "age"} :
          cfg = BackupConfig(items, sensitive, pats, encryption, recipientsPath, <<>>,
                             TRUE, TRUE)
    /\ \E includeSecrets \in BOOLEAN,
          mode \in {<<FALSE, FALSE>>, <<TRUE, FALSE>>, <<FALSE, TRUE>>} :
          bopts = BackupOptions("", includeSecrets, mode[1], mode[2])
    /\ BackupStartState

NextCollect == BackupStart \/ BackupCollect \/ BackupWrite

SpecCollect == InitCollect /\ [][NextCollect]_vars

----------------------------------------------------------------------------
(* Properties of the collection *)

\* the location of a path relative to the home directory
ItemLoc(relPath) == <<homeName>> \o Split(relPath, "/")

\* the path of a location of the home directory, relative to it and absolute
LocRel(loc) == JoinSlash(Tail(loc))
LocPath(loc) == Join(HomeDir, LocRel(loc))

IsPrefixSeq(a, b) == Len(a) <= Len(b) /\ SubSeq(b, 1, Len(a)) = a

\* the directories from itemLoc down to the parent of loc are real, readable
\* and not excluded: collecting the item at itemLoc meets loc
WalkReaches(itemLoc, loc) ==
    /\ itemLoc \in DOMAIN fs
    /\ loc \in DOMAIN fs
    /\ IsPrefixSeq(itemLoc, loc)
    /\ \A n \in Len(itemLoc)..(Len(loc) - 1) :
          /\ fs[SubSeq(loc, 1, n)].kind = "dir"
          /\ "ur" \in fs[SubSeq(loc, 1, n)].mode
          /\ ~isExcluded(cfg.Patterns, LocRel(SubSeq(loc, 1, n)))

\* the items collectFiles goes through: the sensitive ones after the regular
\* ones when the backup is encrypted and secrets are asked for
PassItems ==
    cfg.Items \o (IF enc.method # "" /\ bopts.IncludeSecrets THEN cfg.Sensitive ELSE <<>>)

Reaching(loc) == {i \in 1..Len(PassItems) : WalkReaches(ItemLoc(PassItems[i]), loc)}

DescriptorsOf(loc) == {i \in 1..Len(collected) : collected[i].FullPath = LocPath(loc)}

HomeLinks == {loc \in DOMAIN fs : fs[loc].kind = "link" /\ loc[1] = homeName}

\* every location above loc is a real directory
RealDirsAbove(loc) ==
    \A n \in 1..(Len(loc) - 1) :
        SubSeq(loc, 1, n) \in DOMAIN fs /\ fs[SubSeq(loc, 1, n)].kind = "dir"

\* an archive entry is what the node at its name is, not what a link leads to
EntryOfNode(e, loc) ==
    /\ loc \in DOMAIN fs
    /\ RealDirsAbove(loc)
    /\ fs[loc].kind = "link" =>
          e.typeflag = "symlink" /\ e.linkname = fs[loc].target /\ e.data = <<>> /\ e.size = 0
    /\ e.data # <<>> => fs[loc].kind = "file" /\ e.data = fs[loc].data

EncryptedPath == Join(cfg.BackupDir, archiveName) \o <<".">> \o MethodChars(enc.method)

\* C12: when a backup Run uses encryption and creating the encrypted archive
\* fails, Run returns Success=false and no file exists at the intended
\* encrypted output path afterwards.
C12_FailedEncryptionLeavesNoOutput ==
    (pc = "backup done" /\ enc # <<>> /\ bresult.Error = "creating encrypted archive") =>
        /\ ~bresult.Success
        /\ Lstat(fs, EncryptedPath).err # ""
        /\ produced = <<>>

\* the encrypted archive of a backup of .zshrc has failed, after the backup
\* directory was made
C12_Witness ==
    /\ pc = "backup done"
    /\ enc # <<>>
    /\ enc.method = "age"
    /\ bresult.Error = "creating encrypted archive"
    /\ Len(collected) > 0
    /\ Stat(fs, cfg.BackupDir).err = ""


----------------------------------------------------------------------------
(* Properties of the safety backup *)

\* C13: when the archive restored is encrypted, no safety archive is written
\* unencrypted.
C13_EncryptedRestoreKeepsSafetyEncrypted ==
    DetectMethod(input.archivePath) # <<>> =>
        \A i \in 1..Len(safety) : safety[i].method # <<>>

\* an entry of the archive restored whose target findFilesToBackup is to find
\* before the restore
Qualifying(header) ==
    /\ header.typeflag # "dir"
    /\ isSafePath(header.name)
    /\ opts.Categories = <<>> \/ matchesCategory(header.name, opts.Categories)
    /\ Stat(fs0, Join(HomeDir, header.name)).err = ""

QualifyingNames == {archive[k].name : k \in {j \in 1..Len(archive) : Qualifying(archive[j])}}

EntryNames(entries) == {entries[k].name : k \in 1..Len(entries)}

\* the entry holds what its target held before the restore
PreRestoreContent(e) ==
    /\ ItemLoc(e.name) \in DOMAIN fs0
    /\ fs0[ItemLoc(e.name)].kind = "file"
    /\ e.data = fs0[ItemLoc(e.name)].data

\* nothing that was there before the restore has changed
NothingChangedYet == \A loc \in DOMAIN fs0 : loc \in DOMAIN fs /\ fs[loc] = fs0[loc]

\* the prompt of createSafetyBackup is shown
Prompted ==
    (\E n \in QualifyingNames : IsSensitive(n)) /\ ~canEncrypt(cfg, fs0)

Cancelled == {"restore cancelled by user", "cancelled: no input received"}

\* C15: when the user cancels at the safety-backup prompt (3, an empty
\* answer or no input), no entry is extracted and Run returns Success=false.
C15_CancelStopsRestore ==
    warning \in Cancelled => count = 0 /\ NothingChangedYet /\ ~result.Success

\* C16: in a restore that is no dry run and has the safety backup enabled,
\* a file that existed before the restore is changed or removed only if a
\* safety archive holds its pre-restore content.
C16_ChangedOnlyIfSaved ==
    (~opts.DryRun /\ ~opts.NoBackup) =>
        \A loc \in DOMAIN fs0 :
            (fs0[loc].kind = "file" /\ (loc \notin DOMAIN fs \/ fs[loc] # fs0[loc])) =>
                \E i \in 1..Len(safety) : \E k \in 1..Len(safety[i].entries) :
                    /\ ItemLoc(safety[i].entries[k].name) = loc
                    /\ safety[i].entries[k].data = fs0[loc].data


----------------------------------------------------------------------------
(* SpecCleanup: cleanupOldBackups on backup directories that hold archives  *)
(* and metadata files of several timestamps and other files, for the       *)
(* values of MaxBackups from -1 on                                          *)

MaxKept == 3

\* a file of the backup directory that is no backup
dotfilesTxtName == <<"d", "o", "t", "f", "i", "l", "e", "s", ".", "t", "x", "t">>

OldBackupNames ==
    {<<"d", "o", "t", "f", "i", "l", "e", "s", "-", "1", ".", "t", "a", "r", ".", "g", "z">>,
     <<"d", "o", "t", "f", "i", "l", "e", "s", "-", "1", ".", "j", "s", "o", "n">>,
     <<"d", "o", "t", "f", "i", "l", "e", "s", "-", "2", ".", "t", "a", "r", ".", "g", "z", ".", "a", "g", "e">>,
     <<"d", "o", "t", "f", "i", "l", "e", "s", "-", "2", ".", "j", "s", "o", "n">>,
     <<"d", "o", "t", "f", "i", "l", "e", "s", "-", "3", ".", "t", "a", "r", ".", "g", "z">>,
     <<"d", "o", "t", "f", "i", "l", "e", "s", "-", "4">>,
     dotfilesTxtName}

bName == <<"b">>
notesName == <<"n", "o", "t", "e", "s">>

\* a home whose backup directory holds the files named, a file notes and the
\* pre-restore directory with a safety archive in it
BackupDirWith(names) ==
    (Root :> DirNode(Perm0755)) @@ (<<homeName>> :> DirNode(Perm0755))
    @@ (<<homeName, bName>> :> DirNode(Perm0700))
    @@ (<<homeName, bName, notesName>> :> FileNode(Bytes3, Perm0600))
    @@ (<<homeName, bName, preRestoreName>> :> DirNode(Perm0700))
    @@ (<<homeName, bName, preRestoreName, safetyArchiveName>> :> FileNode(GzipBytes, Perm0600))
    @@ [loc \in {<<homeName, bName, n>> : n \in names} |-> FileNode(GzipBytes, Perm0600)]

\* a home without backup directory
NoBackupDir == (Root :> DirNode(Perm0755)) @@ (<<homeName>> :> DirNode(Perm0755))

CleanupConfig(maxBackups) ==
    [BackupConfig(<<>>, <<>>, <<>>, "none", <<>>, <<>>, FALSE, FALSE)
        EXCEPT !.MaxBackups = maxBackups]

InitCleanup ==
    /\ PathIdle /\ ExclIdle /\ PipeIdle /\ WriteIdle /\ ExtractIdle /\ RunIdle2 /\ BackupIdle
    /\ pc = "cleanup"
    /\ fs \in {BackupDirWith(names) : names \in SUBSET OldBackupNames} \cup {NoBackupDir}
    /\ fs0 = fs
    /\ umask = {}
    /\ cfg \in {CleanupConfig(n) : n \in (-1)..MaxKept}

\* cleanupOldBackups
CleanupOldBackups ==
    /\ pc = "cleanup"
    /\ fs' = cleanupOldBackups(fs, cfg)
    /\ pc' = "cleanup done"
    /\ UNCHANGED <<writeVars, pipeVars, pathVars, exclVars, fs0, umask, extractVars, runVars, backupVars>>

NextCleanup == CleanupOldBackups

SpecCleanup == InitCleanup /\ [][NextCleanup]_vars

\* the timestamp of a backup file name: what follows dotfiles- up to the
\* first dot
GroupOf(name) == Head(Split(TrimPrefix(name, dotfilesPrefix), "."))

BackupDirLoc == <<homeName, bName>>

\* the names of the backup files the directory held before the cleanup
BackupNames0 ==
    {loc[3] : loc \in {l \in DOMAIN fs0 : /\ Len(l) = 3
                                          /\ SubSeq(l, 1, 2) = BackupDirLoc
                                          /\ HasPrefix(l[3], dotfilesPrefix)}}

Groups0 == {GroupOf(n) : n \in BackupNames0}

\* the groups of the MaxBackups greatest timestamps
GreatestGroups ==
    {t \in Groups0 : Cardinality({u \in Groups0 : Less(t, u)}) < cfg.MaxBackups}

IsBackupFile(loc) ==
    Len(loc) = 3 /\ SubSeq(loc, 1, 2) = BackupDirLoc /\ HasPrefix(loc[3], dotfilesPrefix)

\* C17: cleanupOldBackups with MaxBackups = N > 0 removes all files of the
\* oldest timestamp groups of the dotfiles-* files of the backup directory,
\* so that the groups of the N greatest timestamps remain, each with all its
\* files (archive and metadata file are of one group); with MaxBackups <= 0
\* or at most N groups it removes nothing; it never removes or changes a file
\* whose name does not start with dotfiles-, and it creates nothing.
C17_CleanupKeepsNewestGroups ==
    pc = "cleanup done" =>
        /\ DOMAIN fs \subseteq DOMAIN fs0
        /\ \A loc \in DOMAIN fs : fs[loc] = fs0[loc]
        /\ \A loc \in DOMAIN fs0 : ~IsBackupFile(loc) => loc \in DOMAIN fs
        /\ (cfg.MaxBackups <= 0 \/ Cardinality(Groups0) <= cfg.MaxBackups) => fs = fs0
        /\ cfg.MaxBackups > 0 =>
              \A n \in BackupNames0 :
                  (<<homeName, bName, n>> \in DOMAIN fs) <=> (GroupOf(n) \in GreatestGroups)

\* of four groups the two oldest are gone, archive and metadata file alike,
\* and the two newest are whole
C17_Witness ==
    /\ pc = "cleanup done"
    /\ cfg.MaxBackups = 2
    /\ BackupNames0 = OldBackupNames \ {dotfilesTxtName}
    /\ <<homeName, bName, dotfilesTxtName>> \in DOMAIN fs
    /\ {loc[3] : loc \in {l \in DOMAIN fs : IsBackupFile(l)}}
          = {<<"d", "o", "t", "f", "i", "l", "e", "s", "-", "3", ".", "t", "a", "r", ".", "g", "z">>, <<"d", "o", "t", "f", "i", "l", "e", "s", "-", "4">>}
    /\ <<homeName, bName, notesName>> \in DOMAIN fs


\* Lstat fails on the item, or the item is a directory that cannot be read
SkippedItem(item) ==
    \/ Lstat(fs, Join(HomeDir, item)).err # ""
    \/ /\ fs[ItemLoc(item)].kind = "dir"
       /\ ~isExcluded(cfg.Patterns, item)
       /\ "ur" \notin fs[ItemLoc(item)].mode

\* the item is a file or a link that no pattern excludes
PlainItem(item) ==
    /\ Lstat(fs, Join(HomeDir, item)).err = ""
    /\ fs[ItemLoc(item)].kind # "dir"
    /\ ~isExcluded(cfg.Patterns, item)

\* C18: a configured item, regular or sensitive, that is missing or cannot
\* be read does not abort the collection: each such item adds one to
\* stats.FilesSkipped, and the remaining items are collected.
C18_MissingItemCountedAsSkipped ==
    pc = "write" =>
        /\ stats.FilesSkipped
              = Cardinality({i \in 1..Len(PassItems) : SkippedItem(PassItems[i])})
        /\ \A i \in 1..Len(PassItems) :
              PlainItem(PassItems[i]) =>
                  \E k \in 1..Len(collected) : collected[k].RelPath = PassItems[i]


\* C19: after collectFiles, stats.FilesBackedUp is the number of descriptors
\* returned, stats.TotalSize the sum of their Size fields and
\* stats.SensitiveFiles the number of descriptors with Sensitive set, so
\* SensitiveFiles <= FilesBackedUp; in the sequence returned the sensitive
\* descriptors come after all the regular ones.
C19_StatsMatchDescriptors ==
    pc \in {"write", "backup done"} =>
        /\ stats.FilesBackedUp = Len(collected)
        /\ stats.TotalSize = SumSizes(collected)
        /\ stats.SensitiveFiles
              = Cardinality({i \in 1..Len(collected) : collected[i].Sensitive})
        /\ stats.SensitiveFiles <= stats.FilesBackedUp
        /\ \A i \in 1..Len(collected) : \A j \in (i + 1)..Len(collected) :
              collected[i].Sensitive => collected[j].Sensitive

\* regular and sensitive descriptors were collected, files and a link
\* among them
C19_Witness ==
    /\ pc = "write"
    /\ stats.SensitiveFiles >= 1
    /\ stats.FilesBackedUp >= stats.SensitiveFiles + 2
    /\ stats.TotalSize >= 3
    /\ collected[Len(collected)].Sensitive
    /\ ~collected[1].Sensitive


----------------------------------------------------------------------------
(* SpecPipe: the pipe of createEncryptedArchive and of createSafetyBackup:  *)
(* the writer goroutine runs the archive writer against the write end and  *)
(* sends its result on errCh, the caller hands the read end to              *)
(* EncryptReader, which reads some of the writes and returns, and then      *)
(* receives from errCh.  An io.Pipe has no buffer: a Write returns when its *)
(* bytes were read or the read end was closed.                              *)

MaxChunks == 3
ErrChCap == 1
ErrClosedPipe == "io: read/write on closed pipe"

NotReturned == [returned |-> FALSE, ok |-> FALSE, all |-> FALSE]

InitPipe ==
    /\ pc = "pipe"
    /\ PathIdle /\ ExclIdle /\ RestoreIdle /\ BackupIdle /\ WriteIdle
    /\ site \in {"createEncryptedArchive", "createSafetyBackup"}
    /\ todo \in 1..MaxChunks
    /\ mpc = "encrypt" /\ wpc = "write" /\ pipe = "empty" /\ closed = {}
    /\ errCh = <<>> /\ werr = "" /\ encRet = NotReturned /\ ret = ""

otherVars == <<pc, pathVars, exclVars, fsVars, extractVars, runVars, backupVars, writeVars>>

\* the archive writer calls Write on the write end: with the read end closed
\* the call fails at once, otherwise it blocks with its bytes offered
WriterWrite ==
    /\ wpc = "write" /\ todo > 0
    /\ todo' = todo - 1
    /\ IF "pr" \in closed
       THEN werr' = ErrClosedPipe /\ UNCHANGED <<wpc, pipe>>
       ELSE pipe' = "offered" /\ wpc' = "blocked" /\ werr' = werr
    /\ UNCHANGED <<otherVars, site, mpc, closed, errCh, encRet, ret>>

\* the Write returns: its bytes were read, or the read end was closed
WriterUnblock ==
    /\ wpc = "blocked"
    /\ pipe = "taken" \/ "pr" \in closed
    /\ werr' = IF pipe = "taken" THEN werr ELSE ErrClosedPipe
    /\ pipe' = "empty"
    /\ wpc' = "write"
    /\ UNCHANGED <<otherVars, site, mpc, closed, todo, errCh, encRet, ret>>

ErrMissedWriting == "archive/tar: missed writing bytes"

\* the archive writer returns, the gzip trailer written: the error of a
\* failed Write, or else the error tarWriter.Close returns when the content
\* of a file was not written to its end (tarErr), or else nil
WriterReturn ==
    /\ wpc = "write" /\ todo = 0
    /\ wpc' = "send"
    /\ \E tarErr \in BOOLEAN :
          werr' = IF werr = "" /\ tarErr THEN ErrMissedWriting ELSE werr
    /\ UNCHANGED <<otherVars, site, mpc, pipe, closed, todo, errCh, encRet, ret>>

\* errCh <- the result of the archive writer
WriterSend ==
    /\ wpc = "send"
    /\ Len(errCh) < ErrChCap
    /\ errCh' = Append(errCh, werr)
    /\ wpc' = "close"
    /\ UNCHANGED <<otherVars, site, mpc, pipe, closed, todo, werr, encRet, ret>>

\* pw.Close, the end of the goroutine
WriterClose ==
    /\ wpc = "close"
    /\ closed' = closed \cup {"pw"}
    /\ wpc' = "done"
    /\ UNCHANGED <<otherVars, site, mpc, pipe, todo, errCh, werr, encRet, ret>>

\* EncryptReader reads what a Write offers
EncryptorRead ==
    /\ mpc = "encrypt"
    /\ pipe = "offered"
    /\ pipe' = "taken"
    /\ UNCHANGED <<otherVars, site, mpc, wpc, closed, todo, errCh, werr, encRet, ret>>

\* EncryptReader returns, with success or with an error, whatever it has
\* read: all the writes, some or none
EncryptorReturn ==
    /\ mpc = "encrypt"
    /\ \E ok \in BOOLEAN :
          /\ encRet' = [returned |-> TRUE, ok |-> ok, all |-> todo = 0 /\ pipe # "offered"]
          /\ mpc' = IF ok THEN "receive" ELSE "close"
    /\ UNCHANGED <<otherVars, site, wpc, pipe, closed, todo, errCh, werr, ret>>

\* the caller with the read end left open after an error of EncryptReader
ClosePipeReader_LeavesOpen ==
    /\ mpc = "close"
    /\ mpc' = "receive"
    /\ UNCHANGED <<otherVars, site, wpc, pipe, closed, todo, errCh, werr, encRet, ret>>

\* pr.Close after an error of EncryptReader
ClosePipeReader ==
    /\ mpc = "close"
    /\ closed' = closed \cup {"pr"}
    /\ mpc' = "receive"
    /\ UNCHANGED <<otherVars, site, wpc, pipe, todo, errCh, werr, encRet, ret>>

\* createEncryptedArchive with the result of the writer dropped
archiveResult_WriterIgnored(encOk, writeErr) ==
    IF ~encOk THEN "encrypt error" ELSE ""

\* what createEncryptedArchive returns
archiveResult(encOk, writeErr) ==
    IF ~encOk THEN (IF writeErr # "" THEN "encrypt error; write error" ELSE "encrypt error")
    ELSE writeErr

\* what createSafetyBackup does next
safetyResult(encOk, writeErr) ==
    IF ~encOk THEN "remove, unencrypted path"
    ELSE IF writeErr # "" THEN "remove, return write error"
    ELSE "return encrypted path"

\* <-errCh, and the return
Receive ==
    /\ mpc = "receive"
    /\ errCh # <<>>
    /\ ret' = IF site = "createEncryptedArchive" THEN archiveResult(encRet.ok, Head(errCh))
              ELSE safetyResult(encRet.ok, Head(errCh))
    /\ errCh' = Tail(errCh)
    /\ mpc' = "returned"
    /\ UNCHANGED <<otherVars, site, wpc, pipe, closed, todo, werr, encRet>>

WriterStep == WriterWrite \/ WriterUnblock \/ WriterReturn \/ WriterSend \/ WriterClose
CallerStep == ClosePipeReader \/ Receive

NextPipe ==
    \/ WriterWrite \/ WriterUnblock \/ WriterReturn \/ WriterSend \/ WriterClose
    \/ EncryptorRead \/ EncryptorReturn
    \/ ClosePipeReader \/ Receive

SpecPipe == InitPipe /\ [][NextPipe]_vars

\* the scheduler runs a goroutine that can run
SpecPipeFair == SpecPipe /\ WF_vars(WriterStep) /\ WF_vars(CallerStep)

\* the function has returned, the goroutine has ended and its one result was
\* received
AllDone == mpc = "returned" /\ wpc = "done" /\ errCh = <<>> /\ "pw" \in closed

\* C20 as stated: whenever EncryptReader has returned, with success or with
\* an error, after reading all, part or none of the pipe, the writer
\* goroutine ends, its result is received and the function returns.
C20_ReturnsWheneverEncryptorReturns == encRet.returned ~> AllDone

\* C20: whenever EncryptReader has returned with an error, after reading
\* all, part or none of the pipe, or with success after reading all the
\* writer writes, the writer goroutine ends, its single result is received
\* from errCh and the function returns; errCh never holds more than one
\* result.
C20_ReturnsUnlessSuccessBeforeAllRead ==
    /\ (encRet.returned /\ (~encRet.ok \/ encRet.all)) ~> AllDone
    /\ [](Len(errCh) <= ErrChCap)

\* EncryptReader failed before it had read everything, the blocked Write
\* failed on the closed read end, and the function has returned both errors
C20_Witness ==
    /\ AllDone
    /\ ~encRet.ok /\ ~encRet.all
    /\ werr = ErrClosedPipe
    /\ ret \in {"encrypt error; write error", "remove, unencrypted path"}


\* C21: createEncryptedArchive returns nil only if EncryptReader and the
\* writer both succeeded; if EncryptReader fails the read end is closed, the
\* writer's result is received all the same and the error returned wraps
\* the encryption error, joined with the write error when the writer failed
\* too; if only the writer fails its error is returned.
C21_ResultCombinesBothErrors ==
    (mpc = "returned" /\ site = "createEncryptedArchive") =>
        /\ wpc \in {"close", "done"} /\ errCh = <<>>
        /\ ret = "" <=> (encRet.ok /\ werr = "")
        /\ ~encRet.ok =>
              /\ "pr" \in closed
              /\ ret = IF werr # "" THEN "encrypt error; write error" ELSE "encrypt error"
        /\ (encRet.ok /\ werr # "") => ret = werr

\* EncryptReader succeeded, the writer failed, and the writer's error is
\* what createEncryptedArchive returned
C21_Witness ==
    /\ mpc = "returned" /\ site = "createEncryptedArchive"
    /\ encRet.ok /\ werr = ErrMissedWriting
    /\ ret = ErrMissedWriting


----------------------------------------------------------------------------
(* Properties of the archive writer *)

\* C29: after a successful backup Run that is no dry run, the archive
\* produced has as many entries as result.Stats.FilesBackedUp says: every
\* descriptor counted as backed up is in the archive, also when a collected
\* file cannot be opened when the archive is written.
C29_EntriesMatchFilesBackedUp ==
    (pc = "backup done" /\ bresult.Success /\ ~bopts.DryRun /\ ~bopts.Estimate) =>
        /\ Len(produced) = 1
        /\ Len(produced[1].entries) = bresult.Stats.FilesBackedUp

\* C23: every entry name written into an archive is a relative,
\* forward-slash path with no ".." segment, for any configured item path and
\* any descriptor of collectItem.
C23_EntryNamesRelativeNoDotDot ==
    \A p \in 1..Len(produced) : \A k \in 1..Len(produced[p].entries) :
        /\ ~IsAbs(produced[p].entries[k].name)
        /\ ~SlicesContains(Split(produced[p].entries[k].name, "/"), DotDot)

\* the nodes below the home directory
HomeLocs == {loc \in DOMAIN fs : Len(loc) >= 2 /\ loc[1] = homeName}

\* collectFiles has run
CollectionDone == pc \in {"write", "backup done"} /\ enc # <<>>

\* an item meets the excluded node at loc: the item itself, or a node its
\* walk comes to
ExcludedMeetings ==
    {m \in (1..Len(PassItems)) \X HomeLocs :
        /\ WalkReaches(ItemLoc(PassItems[m[1]]), m[2])
        /\ isExcluded(cfg.Patterns, LocRel(m[2]))}

\* C24: an excluded directory met during collection, the item root
\* included, is not entered: nothing below it is collected, also what
\* matches no pattern itself, and stats.FilesExcluded grows by one for the
\* directory; an excluded file or symbolic link adds one to FilesExcluded
\* and gives no descriptor, and the nodes beside it are collected.
C24_ExcludedNotEnteredCountedOnce ==
    CollectionDone =>
        /\ stats.FilesExcluded = Cardinality(ExcludedMeetings)
        /\ \A k \in 1..Len(collected) :
              /\ ~isExcluded(cfg.Patterns, collected[k].RelPath)
              /\ Reaching(ItemLoc(collected[k].RelPath)) # {}
        /\ \A loc \in HomeLocs :
              (fs[loc].kind # "dir" /\ ~isExcluded(cfg.Patterns, LocRel(loc))) =>
                  Cardinality(DescriptorsOf(loc)) = Cardinality(Reaching(loc))

\* .config is excluded by "*g": it is counted once and nothing of it is
\* collected, though no path below it matches the pattern; the link beside
\* it is collected
C24_Witness ==
    /\ pc = "write"
    /\ cfg.Patterns = <<starG>> /\ cfg.Items = <<lnkName, configName>>
    /\ ~isExcluded(cfg.Patterns, <<".", "c", "o", "n", "f", "i", "g", "/", "a">>)
    /\ stats.FilesExcluded = 1
    /\ Len(collected) >= 1 /\ collected[1].RelPath = lnkName
    /\ \A k \in 1..Len(collected) : ~HasPrefix(collected[k].RelPath, configName \o <<"/">>)

----------------------------------------------------------------------------
(* SpecWrite: writeArchive, one descriptor at a time, against a sink that    *)
(* accepts every write.  The tar.Writer owes the content its last header    *)
(* announced: while bytes of it are owed, WriteHeader and Close fail.  The  *)
(* files are those of the home directory when AddFileToTar comes to them,   *)
(* after the collection; reading a file may fail, or find more than Lstat   *)
(* announced.                                                               *)

ErrWriteTooLong == "archive/tar: write too long"
ErrRead == "read error"

NewWriter == [entries |-> <<>>, nb |-> 0]

Wrote(t, e) == [tw |-> t, err |-> e]

\* tar.Writer.WriteHeader: the flush of the entry before fails while content
\* of it is owed; otherwise the header is written and its size is owed
WriteHeader(t, hdr) ==
    IF t.nb > 0 THEN Wrote(t, ErrMissedWriting)
    ELSE Wrote([entries |-> Append(t.entries, [hdr EXCEPT !.data = <<>>]),
                nb |-> hdr.size], "")

\* tar.Writer.Write: no more than the bytes owed are written
Write(t, b) ==
    Wrote([entries |-> [t.entries EXCEPT ![Len(t.entries)].data =
                            @ \o SubSeq(b, 1, Min(Len(b), t.nb))],
           nb |-> t.nb - Min(Len(b), t.nb)],
          IF Len(b) > t.nb THEN ErrWriteTooLong ELSE "")

\* io.Copy into the tar.Writer: what was read is written, and the error is
\* the one of the write or else the one of the read
copyTo(w, readErr) == Wrote(w.tw, IF w.err # "" THEN w.err ELSE readErr)

\* tar.Writer.Close
CloseWriter(t) == IF t.nb > 0 THEN ErrMissedWriting ELSE ""

NoFault == [kind |-> "none", k |-> 0]
ReadFails(k) == [kind |-> "read error", k |-> k]
Grown == [kind |-> "grown", k |-> 0]

\* what reading the file gives: its content, the first k bytes of it and an
\* error, or its content and what was appended since Lstat
BytesRead(data, fault) ==
    IF fault.kind = "read error" THEN SubSeq(data, 1, fault.k)
    ELSE IF fault.kind = "grown" THEN data \o <<"+">>
    ELSE data

\* AddFileToTar from the header on
addAfterHeader(h, node, fault) ==
    IF h.err # "" THEN h
    ELSE IF node.kind = "dir" THEN Wrote(h.tw, "EISDIR")
    ELSE copyTo(Write(h.tw, BytesRead(node.data, fault)),
                IF fault.kind = "read error" THEN ErrRead ELSE "")

\* AddFileToTar on the node found, with the tar.Writer t
addNodeTo(t, node, relPath, fault) ==
    IF node.kind = "link" THEN WriteHeader(t, Header(relPath, "symlink", node))
    ELSE IF "ur" \notin node.mode THEN Wrote(t, "EACCES")
    ELSE IF node.kind = "dir"
    THEN addAfterHeader(WriteHeader(t, Header(relPath, "dir", node)), node, fault)
    ELSE addAfterHeader(WriteHeader(t, Entry(relPath, "reg", node.mode, node.data, <<>>)),
                        node, fault)

addTo(t, f, info, relPath, fault) ==
    IF info.err # "" THEN Wrote(t, info.err) ELSE addNodeTo(t, f[info.loc], relPath, fault)

\* the file is one whose content AddFileToTar copies
Copied(f, info) ==
    info.err = "" /\ f[info.loc].kind = "file" /\ "ur" \in f[info.loc].mode

\* what can befall the copy of the file
FaultsAt(f, info) ==
    IF Copied(f, info)
    THEN {NoFault, Grown} \cup {ReadFails(k) : k \in 0..(Len(f[info.loc].data) - 1)}
    ELSE {NoFault}

WriteItemLists ==
    {<<zshrcName>>, <<zshrcName, configName>>, <<configName, zshrcName>>,
     <<zshrcName, sshName, pypircName>>}

InitWrite ==
    /\ PathIdle /\ ExclIdle /\ PipeIdle /\ ExtractIdle /\ RunIdle
    /\ bopts = <<>> /\ enc = <<>> /\ stats = <<>> /\ bresult = <<>> /\ produced = <<>>
    /\ fs0 \in {BackupHome(Perm0600), BackupHome({"uw"})}
    /\ \E change \in {<<"none", {}>>, <<"removed", {}>>} : fs = ChangedHome(fs0, change)
    /\ umask = {}
    /\ \E items \in WriteItemLists :
          collected = collectRegular(fs0, items, <<>>, NothingCollected).files
    /\ pc = "archive"
    /\ tw = NewWriter /\ added = <<>> /\ wret = ""

takeAdded(a, fault) ==
    /\ tw' = a.tw
    /\ added' = Append(added, [fault |-> fault, err |-> a.err])

addNext(info, d) ==
    \E fault \in FaultsAt(fs, info) : takeAdded(addTo(tw, fs, info, d.RelPath, fault), fault)

\* one turn of the loop of writeArchive: AddFileToTar on the next descriptor,
\* its error logged and passed over
AddNext ==
    /\ pc = "archive"
    /\ Len(added) < Len(collected)
    /\ addNext(Lstat(fs, collected[Len(added) + 1].FullPath), collected[Len(added) + 1])
    /\ UNCHANGED <<pc, wret, pipeVars, pathVars, exclVars, fsVars, extractVars, runVars,
                   backupVars>>

\* writeArchive returns nil and its deferred calls close the tar and the gzip
\* writer: the error of tarWriter.Close is what writeArchive returns
CloseArchive ==
    /\ pc = "archive"
    /\ Len(added) = Len(collected)
    /\ wret' = CloseWriter(tw)
    /\ pc' = "archive closed"
    /\ UNCHANGED <<tw, added, pipeVars, pathVars, exclVars, fsVars, extractVars, runVars,
                   backupVars>>

NextWrite == AddNext \/ CloseArchive

SpecWrite == InitWrite /\ [][NextWrite]_vars

----------------------------------------------------------------------------
(* Properties of writeArchive *)

\* a is b with some of its elements left out
RECURSIVE IsSubsequence(_, _)
IsSubsequence(a, b) ==
    IF a = <<>> THEN TRUE
    ELSE IF b = <<>> THEN FALSE
    ELSE IF Head(a) = Head(b) THEN IsSubsequence(Tail(a), Tail(b))
    ELSE IsSubsequence(a, Tail(b))

\* the entries of the descriptors up to n on which AddFileToTar met no
\* failure of its own: the file was there, could be opened and was read to
\* its end
RECURSIVE EntriesOwed(_)
EntriesOwed(n) ==
    IF n = 0 THEN <<>>
    ELSE EntriesOwed(n - 1)
         \o (IF /\ added[n].fault = NoFault
                /\ AddFileToTar(fs, collected[n].FullPath, collected[n].RelPath).err = ""
             THEN AddFileToTar(fs, collected[n].FullPath, collected[n].RelPath).entries
             ELSE <<>>)

\* C25: writeArchive passes over a descriptor whose file cannot be added
\* (lstat, readlink, open, header or content-copy failure) and writes an
\* intact entry for every other descriptor, in list order: a failure on one
\* file does not abort the archive nor take away or corrupt the entries of
\* the files after it, and writeArchive returns nil when the sink accepted
\* all writes.
C25_FailedFileOnlyIsSkipped ==
    pc = "archive closed" =>
        /\ wret = ""
        /\ IsSubsequence(EntriesOwed(Len(added)), tw.entries)

----------------------------------------------------------------------------
(* Properties of the safety backup and of the temporary file of Run *)

\* C27: a safety backup that holds a path with one of the sensitive prefixes
\* is on disk unencrypted only when the prompt of promptForSensitiveBackup
\* was shown (and answered with 1); in every other case it is written
\* through the encryptor, without the sensitive paths, or not at all.
C27_SensitiveSafetyClearOnlyByChoice ==
    \A i \in 1..Len(safety) :
        (/\ safety[i].method = <<>>
         /\ \E k \in 1..Len(safety[i].entries) : IsSensitive(safety[i].entries[k].name)) =>
            Prompted

\* C28: after a restore Run of an encrypted archive has returned, on every
\* path (restore done, extraction error, decryption failure), no temporary
\* file made to hold the decrypted archive is left on disk.
C28_NoTempFileAfterRun ==
    (pc = "done" /\ NeedsDecrypt(input.archivePath)) =>
        Lstat(fs, Join(TempDirPath, TempFileName)).err # ""

====
